---- MODULE Spec2Model ----
(***************************************************************************)
(* Off-chain match coordinator of putricio01/volttx (backend-rust): the    *)
(* matches row, its chain_jobs row, the finalizer workers, the timeout     *)
(* watcher, the HTTP handlers that change them, and the ledger they talk   *)
(* to.  One match (match_id = 1) is modelled; the rows of different        *)
(* matches never appear in the same statement of the code.                 *)
(***************************************************************************)
EXTENDS Integers, FiniteSets, Sequences, TLC

VARIABLES
    now,      \* the database clock, now(), in seconds
    match,    \* the matches row of the match
    job,      \* the chain_jobs row of the match (unique on match_id)
    chain,    \* the on-chain Game account at game_pda
    txs,      \* the finalization transactions the ledger has received, by signature
    wk,       \* each finalizer worker: its position in process_one_job and its locals
    ccReqs,   \* create-confirm requests between their read of the row and their update
    jcReqs,   \* join-confirm requests between their read of the row and their update
    last,     \* the HTTP call answered by the last step, with its answer (history)
    internal_hmac_secret,  \* INTERNAL_HMAC_SECRET of the deployment
    used_nonces,           \* the rows of table used_nonces, in insertion order
    rfReqs,   \* retry-finalization requests between their MAC check and their nonce insert
    answered  \* per signature, the first and the latest body a confirm call answered (history)

vars == <<now, match, job, chain, txs, wk, ccReqs, jcReqs, last,
          internal_hmac_secret, used_nonces, rfReqs, answered>>

----------------------------------------------------------------------------
(* Bounds of the model *)

\* The clock never passes MaxTime: a lease taken at time 0 can go stale.
MaxTime == 31

\* The instant up to which the clock runs where a job is followed to its end
\* through the longest backoffs.
Horizon == 300
\* At most MaxTx finalization transactions are ever sent (signatures 1..MaxTx).
MaxTx == 2
\* attempt_count is not driven past MaxAttemptCount by failing RPCs.
MaxAttemptCount == 1
\* ... except for a job within LateAttempts of MAX_FINALIZER_ATTEMPTS.
LateAttempts == 2
\* JOIN_TIMEOUT_SECONDS and SETTLE_TIMEOUT_SECONDS of the deployment.
JoinTimeoutSeconds == 2
SettleTimeoutSeconds == 3

(* Program constants *)
LeaseSeconds == 30
MAX_FINALIZER_ATTEMPTS == 10
MAX_BACKOFF_SECONDS == 60

\* The finalizer processes that share the database (one task per process).
Workers == {"w1", "w2"}

\* SQL NULL, for text columns, timestamps, signatures and lock tokens.
NULL == "null"
NoTime == 0 - 1
NoSig == 0
NoToken == 0

Sigs == 1..MaxTx
\* A lock token is a fresh UUID; only equality between the stored token and the
\* tokens the workers hold is ever observed, so a token no row and no worker
\* refers to stands for a fresh one.
Tokens == 1..(Cardinality(Workers) + 1)

P1 == "P1"
P2 == "P2"
\* A key that plays in no match.
P3 == "P3"
AUTH == "AUTH"
DefaultPubkey == "default"

CreateSigs == {"c1", "c2"}
JoinSigs == {"j1", "j2"}
ApiOps == {"create_match", "create_confirm", "join_confirm", "submit_result", "admin_retry"}

MatchId == 1
EntryLamports == 1000000

----------------------------------------------------------------------------
(* Rows *)

NoMatch ==
    [ status |-> "absent", player1_pubkey |-> NULL, player2_pubkey |-> NULL,
      authority_pubkey |-> NULL, entry_lamports |-> 0,
      winner_pubkey |-> NULL, finalization_reason_code |-> NULL,
      result_idempotency_key |-> NULL, create_tx_sig |-> NULL,
      join_tx_sig |-> NULL, final_tx_sig |-> NoSig,
      created_onchain_at |-> NoTime, joined_onchain_at |-> NoTime,
      join_expires_at |-> NoTime, settle_expires_at |-> NoTime,
      finalized_at |-> NoTime, last_error |-> NULL ]

NoJob ==
    [ exists |-> FALSE, job_type |-> NULL, status |-> NULL,
      winner_pubkey |-> NULL, attempt_count |-> 0, last_tx_sig |-> NoSig,
      last_error |-> NULL, next_attempt_at |-> NoTime,
      lock_token |-> NoToken, locked_at |-> NoTime ]

NoGame ==
    [ state |-> "None", player1 |-> NULL, player2 |-> NULL, authority |-> NULL,
      match_id |-> 0, entry_amount |-> 0, created_at |-> NoTime,
      joined_at |-> NoTime ]

NoClaim ==
    [ lock_token |-> NoToken, job_type |-> NULL, chain_job_status |-> NULL,
      winner_pubkey |-> NULL, attempt_count |-> 0, last_tx_sig |-> NoSig ]

IdleWorker == [ pc |-> "idle", job |-> NoClaim, decoded |-> NoGame, sig |-> NoSig ]

NoCall == [ op |-> "none", arg |-> NULL, res |-> NULL ]

TerminalStatus == {"settled", "refunded"}

\* COALESCE(old, new) for text, timestamps and signatures.
coalesce(old, new) == IF old = NULL THEN new ELSE old
coalesce_time(old, new) == IF old = NoTime THEN new ELSE old
coalesce_sig(old, new) == IF old = NoSig THEN new ELSE old

----------------------------------------------------------------------------
(* db/matches.rs *)

insert_create_match_record ==
    [ NoMatch EXCEPT !.status = "waiting_create_tx", !.player1_pubkey = P1,
                     !.authority_pubkey = AUTH, !.entry_lamports = EntryLamports ]

\* The UPDATE of create_confirm with match_status = 'created_on_chain' set
\* whatever the row's status (no CASE on the current status).
mark_match_created_unguarded(m, create_tx_sig, created_onchain_at, join_expires_at) ==
    [ m EXCEPT
        !.status = "created_on_chain",
        !.create_tx_sig = coalesce(m.create_tx_sig, create_tx_sig),
        !.created_onchain_at = coalesce_time(m.created_onchain_at, created_onchain_at),
        !.join_expires_at = coalesce_time(m.join_expires_at, join_expires_at) ]

\* The UPDATE of create_confirm with plain assignments in place of COALESCE.
mark_match_created_overwriting(m, create_tx_sig, created_onchain_at, join_expires_at) ==
    [ m EXCEPT
        !.status = IF m.status = "waiting_create_tx" THEN "created_on_chain" ELSE m.status,
        !.create_tx_sig = create_tx_sig,
        !.created_onchain_at = created_onchain_at,
        !.join_expires_at = join_expires_at ]

mark_match_created_on_chain(m, create_tx_sig, created_onchain_at, join_expires_at) ==
    [ m EXCEPT
        !.status = IF m.status = "waiting_create_tx" THEN "created_on_chain" ELSE m.status,
        !.create_tx_sig = coalesce(m.create_tx_sig, create_tx_sig),
        !.created_onchain_at = coalesce_time(m.created_onchain_at, created_onchain_at),
        !.join_expires_at = coalesce_time(m.join_expires_at, join_expires_at) ]

\* The UPDATE of join_confirm with match_status = 'joined_on_chain' set
\* whatever the row's status (no CASE on the current status).
mark_match_joined_unguarded(m, player2_pubkey, join_tx_sig, joined_onchain_at, settle_expires_at) ==
    IF m.player2_pubkey = NULL \/ m.player2_pubkey = player2_pubkey
    THEN [ ok |-> TRUE,
           match |-> [ m EXCEPT
             !.status = "joined_on_chain",
             !.player2_pubkey = coalesce(m.player2_pubkey, player2_pubkey),
             !.join_tx_sig = coalesce(m.join_tx_sig, join_tx_sig),
             !.joined_onchain_at = coalesce_time(m.joined_onchain_at, joined_onchain_at),
             !.settle_expires_at = coalesce_time(m.settle_expires_at, settle_expires_at) ] ]
    ELSE [ ok |-> FALSE, match |-> m ]

\* The UPDATE of join_confirm with plain assignments in place of COALESCE.
mark_match_joined_overwriting(m, player2_pubkey, join_tx_sig, joined_onchain_at, settle_expires_at) ==
    IF m.player2_pubkey = NULL \/ m.player2_pubkey = player2_pubkey
    THEN [ ok |-> TRUE,
           match |-> [ m EXCEPT
             !.status = IF m.status = "created_on_chain" THEN "joined_on_chain" ELSE m.status,
             !.player2_pubkey = player2_pubkey,
             !.join_tx_sig = join_tx_sig,
             !.joined_onchain_at = joined_onchain_at,
             !.settle_expires_at = settle_expires_at ] ]
    ELSE [ ok |-> FALSE, match |-> m ]

\* [ok, match]: ok is FALSE when the UPDATE matched no row (player2 mismatch).
mark_match_joined_on_chain(m, player2_pubkey, join_tx_sig, joined_onchain_at, settle_expires_at) ==
    IF m.player2_pubkey = NULL \/ m.player2_pubkey = player2_pubkey
    THEN [ ok |-> TRUE,
           match |-> [ m EXCEPT
             !.status = IF m.status = "created_on_chain" THEN "joined_on_chain" ELSE m.status,
             !.player2_pubkey = coalesce(m.player2_pubkey, player2_pubkey),
             !.join_tx_sig = coalesce(m.join_tx_sig, join_tx_sig),
             !.joined_onchain_at = coalesce_time(m.joined_onchain_at, joined_onchain_at),
             !.settle_expires_at = coalesce_time(m.settle_expires_at, settle_expires_at) ] ]
    ELSE [ ok |-> FALSE, match |-> m ]

----------------------------------------------------------------------------
(* db/chain_jobs.rs *)

\* A claim query that takes unlocked jobs only, however old the lease.
claimable_unlocked_only(j, t) ==
    /\ j.exists
    /\ j.status \in {"pending", "retrying", "submitted"}
    /\ j.next_attempt_at <= t
    /\ \/ j.lock_token = NoToken
       \/ j.locked_at = NoTime

\* A claim query that does not wait for next_attempt_at.
claimable_before_due(j, t) ==
    /\ j.exists
    /\ j.status \in {"pending", "retrying", "submitted"}
    /\ \/ j.lock_token = NoToken
       \/ j.locked_at = NoTime
       \/ j.locked_at < t - LeaseSeconds

\* The WHERE clause of the claim query (the row lock of FOR UPDATE SKIP LOCKED
\* is held only inside a transaction, and every transaction is one step here).
claimable(j, t) ==
    /\ j.exists
    /\ j.status \in {"pending", "retrying", "submitted"}
    /\ j.next_attempt_at <= t
    /\ \/ j.lock_token = NoToken
       \/ j.locked_at = NoTime
       \/ j.locked_at < t - LeaseSeconds

\* [job, claim]: the row after the claim and the ClaimedFinalizerJob returned.
claim_next_due_finalizer_job(j, lock_token, t) ==
    [ job |-> [ j EXCEPT !.lock_token = lock_token, !.locked_at = t ],
      claim |-> [ lock_token |-> lock_token, job_type |-> j.job_type,
                  chain_job_status |-> j.status, winner_pubkey |-> j.winner_pubkey,
                  attempt_count |-> j.attempt_count, last_tx_sig |-> j.last_tx_sig ] ]

\* WHERE match_id = $1 alone: the update is not scoped to the caller's lock token.
holds_lock_unscoped(j, lock_token) == j.exists

\* WHERE match_id = $1 AND lock_token = $2 (a NULL lock_token equals nothing).
holds_lock(j, lock_token) ==
    j.exists /\ lock_token # NoToken /\ j.lock_token = lock_token

mark_job_submitted(j, m, lock_token, tx_sig) ==
    IF holds_lock(j, lock_token)
    THEN [ res |-> "Ok",
           job |-> [ j EXCEPT !.status = "submitted", !.last_tx_sig = tx_sig,
                              !.attempt_count = j.attempt_count + 1,
                              !.last_error = NULL ],
           match |-> [ m EXCEPT
             !.status = IF m.status = "result_pending_finalize" THEN "finalizing" ELSE m.status,
             !.last_error = NULL ] ]
    ELSE [ res |-> "Conflict", job |-> j, match |-> m ]

mark_job_retry_or_failed(j, m, lock_token, next_status, error_message, next_attempt_in_seconds, increment_attempt_count, t) ==
    IF holds_lock(j, lock_token)
    THEN [ res |-> "Ok",
           job |-> [ j EXCEPT
             !.status = next_status,
             !.last_error = error_message,
             !.next_attempt_at = IF next_status = "retrying"
                                 THEN t + next_attempt_in_seconds
                                 ELSE j.next_attempt_at,
             !.attempt_count = IF increment_attempt_count
                               THEN j.attempt_count + 1 ELSE j.attempt_count,
             !.lock_token = NoToken,
             !.locked_at = NoTime ],
           match |-> [ m EXCEPT
             !.status = IF m.status \in {"result_pending_finalize", "finalizing"}
                           /\ next_status = "retrying"
                        THEN "finalizing" ELSE m.status,
             !.last_error = error_message ] ]
    ELSE [ res |-> "Conflict", job |-> j, match |-> m ]

mark_job_retrying(j, m, lock_token, error_message, next_attempt_in_seconds, increment_attempt_count, t) ==
    mark_job_retry_or_failed(j, m, lock_token, "retrying", error_message,
                             next_attempt_in_seconds, increment_attempt_count, t)

mark_job_failed(j, m, lock_token, error_message, increment_attempt_count, t) ==
    mark_job_retry_or_failed(j, m, lock_token, "failed", error_message, 0,
                             increment_attempt_count, t)

mark_job_confirmed_and_finalize_match(j, m, lock_token, final_tx_sig, final_match_status, t) ==
    IF holds_lock(j, lock_token)
    THEN [ res |-> "Ok",
           job |-> [ j EXCEPT !.status = "confirmed",
                              !.last_tx_sig = coalesce_sig(j.last_tx_sig, final_tx_sig),
                              !.last_error = NULL,
                              !.lock_token = NoToken,
                              !.locked_at = NoTime ],
           match |-> [ m EXCEPT !.status = final_match_status,
                                !.final_tx_sig = coalesce_sig(m.final_tx_sig, final_tx_sig),
                                !.finalized_at = coalesce_time(m.finalized_at, t),
                                !.last_error = NULL ] ]
    ELSE [ res |-> "Conflict", job |-> j, match |-> m ]

\* WHERE match_id = $1 alone: whoever calls it clears the lease.
clear_job_lock_any_token(j, lock_token) ==
    IF j.exists
    THEN [ j EXCEPT !.lock_token = NoToken, !.locked_at = NoTime ]
    ELSE j

clear_job_lock(j, lock_token) ==
    IF holds_lock(j, lock_token)
    THEN [ j EXCEPT !.lock_token = NoToken, !.locked_at = NoTime ]
    ELSE j

\* A retry without the check of the match status and without the guard
\* status <> 'confirmed' on the job.
retry_finalization_unguarded(j, m, t) ==
    IF m.status = "absent"
    THEN [ res |-> "NotFound", job |-> j, match |-> m ]
    ELSE IF ~j.exists
    THEN [ res |-> "NotFound", job |-> j, match |-> m ]
    ELSE [ res |-> "Ok",
           job |-> [ j EXCEPT !.status = "pending", !.next_attempt_at = t,
                              !.last_error = NULL, !.lock_token = NoToken,
                              !.locked_at = NoTime ],
           match |-> [ m EXCEPT
             !.status = IF m.status \in {"result_pending_finalize", "finalizing"}
                        THEN "finalizing" ELSE m.status,
             !.last_error = NULL ] ]

\* A retry that moves the match but leaves the chain job as it is.
retry_finalization_match_only(j, m, t) ==
    IF m.status = "absent"
    THEN [ res |-> "NotFound", job |-> j, match |-> m ]
    ELSE IF m.status \in TerminalStatus
    THEN [ res |-> "Conflict", job |-> j, match |-> m ]
    ELSE IF ~(j.exists /\ j.status # "confirmed")
    THEN [ res |-> IF j.exists THEN "Conflict" ELSE "NotFound", job |-> j, match |-> m ]
    ELSE [ res |-> "Ok", job |-> j,
           match |-> [ m EXCEPT
             !.status = IF m.status \in {"result_pending_finalize", "finalizing"}
                        THEN "finalizing" ELSE m.status,
             !.last_error = NULL ] ]

\* A retry that gives the job its attempts back.
retry_finalization_fresh_attempts(j, m, t) ==
    IF m.status = "absent"
    THEN [ res |-> "NotFound", job |-> j, match |-> m ]
    ELSE IF m.status \in TerminalStatus
    THEN [ res |-> "Conflict", job |-> j, match |-> m ]
    ELSE IF ~(j.exists /\ j.status # "confirmed")
    THEN [ res |-> IF j.exists THEN "Conflict" ELSE "NotFound", job |-> j, match |-> m ]
    ELSE [ res |-> "Ok",
           job |-> [ j EXCEPT !.status = "pending", !.next_attempt_at = t,
                              !.last_error = NULL, !.lock_token = NoToken,
                              !.locked_at = NoTime, !.attempt_count = 0 ],
           match |-> [ m EXCEPT
             !.status = IF m.status \in {"result_pending_finalize", "finalizing"}
                        THEN "finalizing" ELSE m.status,
             !.last_error = NULL ] ]

retry_finalization_job(j, m, t) ==
    IF m.status = "absent"
    THEN [ res |-> "NotFound", job |-> j, match |-> m ]
    ELSE IF m.status \in TerminalStatus
    THEN [ res |-> "Conflict", job |-> j, match |-> m ]
    ELSE IF ~(j.exists /\ j.status # "confirmed")
    THEN [ res |-> IF j.exists THEN "Conflict" ELSE "NotFound", job |-> j, match |-> m ]
    ELSE [ res |-> "Ok",
           job |-> [ j EXCEPT !.status = "pending", !.next_attempt_at = t,
                              !.last_error = NULL, !.lock_token = NoToken,
                              !.locked_at = NoTime ],
           match |-> [ m EXCEPT
             !.status = IF m.status \in {"result_pending_finalize", "finalizing"}
                        THEN "finalizing" ELSE m.status,
             !.last_error = NULL ] ]

\* The key the watcher records: format!("auto-join-timeout-{match_id}").
AutoJoinTimeoutKey == "auto-join-timeout-1"

\* A candidate SELECT that does not look at join_expires_at.
join_timeout_candidate_any_time(j, m, t) ==
    /\ m.status = "created_on_chain"
    /\ m.player2_pubkey = NULL
    /\ ~j.exists

\* The candidate SELECT of the timeout watcher.
join_timeout_candidate(j, m, t) ==
    /\ m.status = "created_on_chain"
    /\ m.player2_pubkey = NULL
    /\ m.join_expires_at # NoTime
    /\ m.join_expires_at <= t
    /\ ~j.exists

\* A watcher that updates the match and leaves the INSERT of the job out.
enqueue_join_timeout_match_only(j, m, t) ==
    IF ~join_timeout_candidate(j, m, t)
    THEN [ res |-> "None", job |-> j, match |-> m ]
    ELSE [ res |-> "Ok",
           job |-> j,
           match |-> [ m EXCEPT
             !.status = "result_pending_finalize",
             !.finalization_reason_code = coalesce(m.finalization_reason_code, "join_timeout"),
             !.winner_pubkey = NULL,
             !.result_idempotency_key = coalesce(m.result_idempotency_key, AutoJoinTimeoutKey),
             !.last_error = NULL ] ]

\* [res, job, match]: res is "None" when nothing was enqueued.
enqueue_next_expired_join_timeout_force_refund(j, m, t) ==
    IF ~join_timeout_candidate(j, m, t)
    THEN [ res |-> "None", job |-> j, match |-> m ]
    ELSE IF ~(m.status = "created_on_chain" /\ m.player2_pubkey = NULL)
    THEN [ res |-> "None", job |-> j, match |-> m ]
    ELSE IF j.exists /\ j.job_type # "force_refund"
    THEN [ res |-> "Conflict", job |-> j, match |-> m ]
    ELSE [ res |-> "Ok",
           job |-> IF j.exists THEN j
                   ELSE [ NoJob EXCEPT !.exists = TRUE, !.job_type = "force_refund",
                                       !.status = "pending", !.winner_pubkey = NULL,
                                       !.next_attempt_at = t ],
           match |-> [ m EXCEPT
             !.status = "result_pending_finalize",
             !.finalization_reason_code = coalesce(m.finalization_reason_code, "join_timeout"),
             !.winner_pubkey = NULL,
             !.result_idempotency_key = coalesce(m.result_idempotency_key, AutoJoinTimeoutKey),
             !.last_error = NULL ] ]

\* The UPDATE of the result without the guard on result_idempotency_key.
update_match_result_any_key(m, params) ==
    IF /\ m.status # "absent"
       /\ (m.winner_pubkey = NULL \/ m.winner_pubkey = params.winner_pubkey)
       /\ m.finalization_reason_code \in {NULL, params.reason_code}
    THEN [ ok |-> TRUE,
           match |-> [ m EXCEPT
             !.status = IF m.status \in {"joined_on_chain", "in_progress"}
                        THEN "result_pending_finalize" ELSE m.status,
             !.finalization_reason_code = coalesce(m.finalization_reason_code, params.reason_code),
             !.winner_pubkey = coalesce(m.winner_pubkey, params.winner_pubkey),
             !.result_idempotency_key = coalesce(m.result_idempotency_key, params.idempotency_key) ] ]
    ELSE [ ok |-> FALSE, match |-> m ]

\* params: [job_type, winner_pubkey, reason_code, idempotency_key].
\* [ok, match]: ok is FALSE when the UPDATE returned no row.
update_match_result(m, params) ==
    IF /\ m.status # "absent"
       /\ \/ m.status \in {"joined_on_chain", "in_progress"}
          \/ m.result_idempotency_key = params.idempotency_key
       /\ m.result_idempotency_key \in {NULL, params.idempotency_key}
       /\ (m.winner_pubkey = NULL \/ m.winner_pubkey = params.winner_pubkey)
       /\ m.finalization_reason_code \in {NULL, params.reason_code}
    THEN [ ok |-> TRUE,
           match |-> [ m EXCEPT
             !.status = IF m.status \in {"joined_on_chain", "in_progress"}
                        THEN "result_pending_finalize" ELSE m.status,
             !.finalization_reason_code = coalesce(m.finalization_reason_code, params.reason_code),
             !.winner_pubkey = coalesce(m.winner_pubkey, params.winner_pubkey),
             !.result_idempotency_key = coalesce(m.result_idempotency_key, params.idempotency_key) ] ]
    ELSE [ ok |-> FALSE, match |-> m ]

\* An upsert whose DO UPDATE puts the row back to a fresh pending job.
upsert_chain_job_requeue(j, params, t) ==
    IF ~j.exists \/ (j.job_type = params.job_type /\ j.winner_pubkey = params.winner_pubkey)
    THEN [ ok |-> TRUE,
           job |-> [ NoJob EXCEPT !.exists = TRUE, !.job_type = params.job_type,
                                  !.status = "pending",
                                  !.winner_pubkey = params.winner_pubkey,
                                  !.next_attempt_at = t ] ]
    ELSE [ ok |-> FALSE, job |-> j ]

\* [ok, job]: ok is FALSE when the INSERT .. ON CONFLICT DO UPDATE .. WHERE returned no row.
upsert_chain_job(j, params, t) ==
    IF ~j.exists
    THEN [ ok |-> TRUE,
           job |-> [ NoJob EXCEPT !.exists = TRUE, !.job_type = params.job_type,
                                  !.status = "pending",
                                  !.winner_pubkey = params.winner_pubkey,
                                  !.next_attempt_at = t ] ]
    ELSE IF j.job_type = params.job_type /\ j.winner_pubkey = params.winner_pubkey
    THEN [ ok |-> TRUE, job |-> j ]
    ELSE [ ok |-> FALSE, job |-> j ]

\* The two statements outside a transaction: a conflict of the upsert leaves
\* the UPDATE of the match in place.
persist_result_no_rollback(j, m, params, t) ==
    LET match_row == update_match_result(m, params)
        chain_job_row == upsert_chain_job(j, params, t)
    IN  IF ~match_row.ok
        THEN [ res |-> "Conflict", job |-> j, match |-> m ]
        ELSE IF ~chain_job_row.ok
        THEN [ res |-> "Conflict", job |-> j, match |-> match_row.match ]
        ELSE [ res |-> "Ok", job |-> chain_job_row.job, match |-> match_row.match ]

\* One transaction: an error of either statement drops it, which rolls it back.
persist_result_and_enqueue(j, m, params, t) ==
    LET match_row == update_match_result(m, params)
        chain_job_row == upsert_chain_job(j, params, t)
    IN  IF ~match_row.ok
        THEN [ res |-> "Conflict", job |-> j, match |-> m ]
        ELSE IF ~chain_job_row.ok
        THEN [ res |-> "Conflict", job |-> j, match |-> m ]
        ELSE [ res |-> "Ok", job |-> chain_job_row.job, match |-> match_row.match ]

----------------------------------------------------------------------------
(* worker/finalizer.rs: the pure parts *)

Min(a, b) == IF a < b THEN a ELSE b
Max(a, b) == IF a > b THEN a ELSE b

RECURSIVE Pow2(_)
Pow2(n) == IF n = 0 THEN 1 ELSE 2 * Pow2(n - 1)

\* The backoff without the cap of MAX_BACKOFF_SECONDS.
retry_backoff_uncapped(attempts) == Pow2(Min(Max(attempts, 1), 6))

retry_backoff_seconds(attempts) ==
    LET exp == Min(Max(attempts, 1), 6)
        secs == Pow2(exp)
    IN  Min(secs, MAX_BACKOFF_SECONDS)

\* The text recorded in last_error (the messages differ; that one is set is what counts).
ErrorText == "error"

\* A policy without the limit of attempts: every failure is retried.
schedule_retry_without_limit(j, m, claim, error_message, increment_attempt_count, t) ==
    LET projected_attempts == claim.attempt_count + (IF increment_attempt_count THEN 1 ELSE 0)
    IN  mark_job_retrying(j, m, claim.lock_token, error_message,
                          retry_backoff_seconds(projected_attempts),
                          increment_attempt_count, t)

\* [res, job, match] of the mark_job_failed / mark_job_retrying call it makes.
schedule_retry_or_fail(j, m, claim, error_message, increment_attempt_count, t) ==
    LET projected_attempts == claim.attempt_count + (IF increment_attempt_count THEN 1 ELSE 0)
    IN  IF projected_attempts >= MAX_FINALIZER_ATTEMPTS
        THEN mark_job_failed(j, m, claim.lock_token, error_message, increment_attempt_count, t)
        ELSE mark_job_retrying(j, m, claim.lock_token, error_message,
                               retry_backoff_seconds(projected_attempts),
                               increment_attempt_count, t)

\* An instruction built for whatever winner the job names.
build_finalization_instruction_any_winner(game, claim) ==
    IF claim.job_type = "settle"
    THEN IF game.state = "Joined" /\ claim.winner_pubkey # NULL
         THEN [ ok |-> TRUE, kind |-> "settle_game", winner |-> claim.winner_pubkey,
                final_match_status |-> "settled" ]
         ELSE [ ok |-> FALSE, kind |-> NULL, winner |-> NULL, final_match_status |-> NULL ]
    ELSE IF game.state \in {"Created", "Joined"}
         THEN [ ok |-> TRUE, kind |-> "force_refund", winner |-> NULL,
                final_match_status |-> "refunded" ]
         ELSE [ ok |-> FALSE, kind |-> NULL, winner |-> NULL, final_match_status |-> NULL ]

\* [ok, kind, winner, final_match_status]: the instruction built, or ok = FALSE (bail!).
build_finalization_instruction(game, claim) ==
    IF claim.job_type = "settle"
    THEN IF /\ game.state = "Joined"
            /\ claim.winner_pubkey # NULL
            /\ claim.winner_pubkey \in {game.player1, game.player2}
         THEN [ ok |-> TRUE, kind |-> "settle_game", winner |-> claim.winner_pubkey,
                final_match_status |-> "settled" ]
         ELSE [ ok |-> FALSE, kind |-> NULL, winner |-> NULL, final_match_status |-> NULL ]
    ELSE IF game.state \in {"Created", "Joined"}
         THEN [ ok |-> TRUE, kind |-> "force_refund", winner |-> NULL,
                final_match_status |-> "refunded" ]
         ELSE [ ok |-> FALSE, kind |-> NULL, winner |-> NULL, final_match_status |-> NULL ]

\* A match over (job_type, state) without the two arms of the cross mismatch.
reconcile_without_cross_arms(game, claim) ==
    IF game.authority # AUTH THEN "fail"
    ELSE IF claim.job_type = "settle" /\ game.state = "Settled" THEN "confirm"
    ELSE IF claim.job_type = "force_refund" /\ game.state = "Refunded" THEN "confirm"
    ELSE IF build_finalization_instruction(game, claim).ok THEN "send"
    ELSE "error"

\* What process_claimed_job does with the account it decoded, before any send:
\* "fail" (mark_job_failed, attempts kept), "confirm" (reconciled with the
\* terminal on-chain state), "error" (build failed) or "send".
reconcile(game, claim) ==
    IF game.authority # AUTH THEN "fail"
    ELSE IF claim.job_type = "settle" /\ game.state = "Settled" THEN "confirm"
    ELSE IF claim.job_type = "force_refund" /\ game.state = "Refunded" THEN "confirm"
    ELSE IF claim.job_type = "settle" /\ game.state = "Refunded" THEN "fail"
    ELSE IF claim.job_type = "force_refund" /\ game.state = "Settled" THEN "fail"
    ELSE IF build_finalization_instruction(game, claim).ok THEN "send"
    ELSE "error"

\* A reconciliation that finalizes every match as settled.
reconciled_status_always_settled(claim) == "settled"

reconciled_status(claim) == IF claim.job_type = "settle" THEN "settled" ELSE "refunded"

\* process_one_job, lines 95-103: an Err of process_claimed_job is turned into
\* schedule_retry_or_fail(.., increment = true); r is what the failed call left.
on_processing_error(r, claim, t) ==
    schedule_retry_or_fail(r.job, r.match, claim, ErrorText, TRUE, t)

\* A DB call of process_claimed_job followed by `?`: on Conflict the error
\* reaches process_one_job, which schedules a retry with the same lock token.
try(r, claim, t) == IF r.res = "Ok" THEN r ELSE on_processing_error(r, claim, t)

----------------------------------------------------------------------------
(* The ledger: the Game account and the transactions sent to the program *)

NoTx == [ kind |-> NULL, winner |-> NULL, status |-> "unsent" ]

\* A program that takes settle_game and force_refund in any state of the account.
program_accepts_any_state(game, tx) ==
    IF tx.kind = "settle_game"
    THEN tx.winner \in {game.player1, game.player2}
    ELSE TRUE

\* The program's own state machine: settle_game needs Joined, force_refund
\* needs Created or Joined; a transaction it rejects fails on-chain.
program_accepts(game, tx) ==
    IF tx.kind = "settle_game"
    THEN game.state = "Joined" /\ tx.winner \in {game.player1, game.player2}
    ELSE game.state \in {"Created", "Joined"}

program_apply(game, tx) ==
    [ game EXCEPT !.state = IF tx.kind = "settle_game" THEN "Settled" ELSE "Refunded" ]

----------------------------------------------------------------------------
(* api/matches.rs and api/admin.rs: the handlers as functions of the rows *)

\* The result requests tried: a base request and one that differs from it in
\* the idempotency key, the winner, the outcome or the reason code.
Requests ==
    { [ idempotency_key |-> "k1", outcome |-> "winner", winner_pubkey |-> P2, reason_code |-> "gg" ],
      [ idempotency_key |-> "k2", outcome |-> "winner", winner_pubkey |-> P2, reason_code |-> "gg" ],
      [ idempotency_key |-> "k1", outcome |-> "winner", winner_pubkey |-> P1, reason_code |-> "gg" ],
      [ idempotency_key |-> "k1", outcome |-> "broken", winner_pubkey |-> NULL, reason_code |-> "gg" ],
      [ idempotency_key |-> "k1", outcome |-> "winner", winner_pubkey |-> P2, reason_code |-> "dc" ] }

result_params(req) ==
    [ job_type |-> IF req.outcome = "winner" THEN "settle" ELSE "force_refund",
      winner_pubkey |-> IF req.outcome = "winner" THEN req.winner_pubkey ELSE NULL,
      reason_code |-> req.reason_code,
      idempotency_key |-> req.idempotency_key ]

\* One settle and one refund request, for runs about the queue.
QueueRequests ==
    { r \in Requests : r.idempotency_key = "k1" /\ r.reason_code = "gg" /\ r.winner_pubkey # P1 }

\* The handler without its readiness check, over an UPDATE that takes a match
\* in any status.
submit_result_unready(j, m, req, t) ==
    IF m.status = "absent"
    THEN [ res |-> "NotFound", job |-> j, match |-> m ]
    ELSE IF req.outcome = "winner" /\ req.winner_pubkey = NULL
    THEN [ res |-> "BadRequest", job |-> j, match |-> m ]
    ELSE IF req.outcome = "broken" /\ req.winner_pubkey # NULL
    THEN [ res |-> "BadRequest", job |-> j, match |-> m ]
    ELSE LET match_row == update_match_result_any_key(m, result_params(req))
             chain_job_row == upsert_chain_job(j, result_params(req), t)
         IN  IF match_row.ok /\ chain_job_row.ok
             THEN [ res |-> "Ok", job |-> chain_job_row.job, match |-> match_row.match ]
             ELSE [ res |-> "Conflict", job |-> j, match |-> m ]

\* The handler without the comparison of the winner with the two players.
submit_result_any_winner(j, m, req, t) ==
    IF m.status = "absent"
    THEN [ res |-> "NotFound", job |-> j, match |-> m ]
    ELSE IF m.status \in {"waiting_create_tx", "created_on_chain"}
    THEN [ res |-> "Conflict", job |-> j, match |-> m ]
    ELSE IF req.outcome = "winner" /\ req.winner_pubkey = NULL
    THEN [ res |-> "BadRequest", job |-> j, match |-> m ]
    ELSE IF req.outcome = "broken" /\ req.winner_pubkey # NULL
    THEN [ res |-> "BadRequest", job |-> j, match |-> m ]
    ELSE persist_result_and_enqueue(j, m, result_params(req), t)

\* [res, job, match] of POST /matches/{id}/result.
submit_result(j, m, req, t) ==
    IF m.status = "absent"
    THEN [ res |-> "NotFound", job |-> j, match |-> m ]
    ELSE IF m.status \in {"waiting_create_tx", "created_on_chain"}
    THEN [ res |-> "Conflict", job |-> j, match |-> m ]
    ELSE IF req.outcome = "winner" /\ req.winner_pubkey = NULL
    THEN [ res |-> "BadRequest", job |-> j, match |-> m ]
    ELSE IF req.outcome = "winner" /\ m.player2_pubkey = NULL
    THEN [ res |-> "Conflict", job |-> j, match |-> m ]
    ELSE IF req.outcome = "winner" /\ req.winner_pubkey \notin {m.player1_pubkey, m.player2_pubkey}
    THEN [ res |-> "Conflict", job |-> j, match |-> m ]
    ELSE IF req.outcome = "broken" /\ req.winner_pubkey # NULL
    THEN [ res |-> "BadRequest", job |-> j, match |-> m ]
    ELSE persist_result_and_enqueue(j, m, result_params(req), t)

\* CreateConfirmResponse and JoinConfirmResponse built from the row read or
\* returned by the UPDATE (match_id left out: there is one match).
create_confirm_response(m, create_tx_sig) ==
    [ verified |-> TRUE, match_status |-> m.status, player2_pubkey |-> NULL,
      tx_sig |-> coalesce(m.create_tx_sig, create_tx_sig),
      expires_at |-> m.join_expires_at ]

join_confirm_response(m, join_tx_sig) ==
    [ verified |-> TRUE, match_status |-> m.status, player2_pubkey |-> m.player2_pubkey,
      tx_sig |-> coalesce(m.join_tx_sig, join_tx_sig),
      expires_at |-> m.settle_expires_at ]

\* The checks confirm_create_tx makes on the decoded account: "Ok" or the error.
verify_created(m, game) ==
    IF game.state = "None" THEN "BadRequest"
    ELSE IF game.state # "Created" THEN "Conflict"
    ELSE IF game.player1 # m.player1_pubkey THEN "Conflict"
    ELSE IF game.authority # m.authority_pubkey THEN "Conflict"
    ELSE IF game.match_id # MatchId THEN "Conflict"
    ELSE IF game.entry_amount # m.entry_lamports THEN "Conflict"
    ELSE "Ok"

\* The checks of confirm_join_tx without the two on player2.
verify_joined_any_player2(m, game) ==
    IF game.state = "None" THEN "BadRequest"
    ELSE IF game.state # "Joined" THEN "Conflict"
    ELSE IF game.player1 # m.player1_pubkey THEN "Conflict"
    ELSE IF game.authority # m.authority_pubkey THEN "Conflict"
    ELSE IF game.match_id # MatchId THEN "Conflict"
    ELSE IF game.entry_amount # m.entry_lamports THEN "Conflict"
    ELSE "Ok"

\* The checks confirm_join_tx makes on the decoded account.
verify_joined(m, game) ==
    IF game.state = "None" THEN "BadRequest"
    ELSE IF game.state # "Joined" THEN "Conflict"
    ELSE IF game.player1 # m.player1_pubkey THEN "Conflict"
    ELSE IF game.authority # m.authority_pubkey THEN "Conflict"
    ELSE IF game.match_id # MatchId THEN "Conflict"
    ELSE IF game.entry_amount # m.entry_lamports THEN "Conflict"
    ELSE IF game.player2 = DefaultPubkey THEN "Conflict"
    ELSE IF game.player2 = game.player1 THEN "Conflict"
    ELSE "Ok"

----------------------------------------------------------------------------
(* api/internal_auth.rs and db/used_nonces.rs *)

\* Header values, the secret and bodies are strings: sequences of characters.
\* The timestamps of the code are i64; the model's i64 has IntBits bits, and
\* an operation that leaves the range wraps or panics as the build decides.
IntBits == 11
MAX_CLOCK_SKEW_SECONDS == 300
MAX_NONCE_LEN == 128

I64_MIN == 0 - Pow2(IntBits - 1)
I64_MAX == Pow2(IntBits - 1) - 1
wrapping(n) == ((n - I64_MIN) % Pow2(IntBits)) + I64_MIN

Secret == <<"k", "e", "y">>
WrongSecret == <<"k", "o">>

IsSpace(c) == c = " "
RECURSIVE trim_start(_)
trim_start(s) == IF s # <<>> /\ IsSpace(Head(s)) THEN trim_start(Tail(s)) ELSE s
RECURSIVE trim_end(_)
trim_end(s) ==
    IF s # <<>> /\ IsSpace(s[Len(s)]) THEN trim_end(SubSeq(s, 1, Len(s) - 1)) ELSE s
trim(s) == trim_end(trim_start(s))

DecimalDigits == <<"0", "1", "2", "3", "4", "5", "6", "7", "8", "9">>
IsDigit(c) == \E d \in 1..10 : DecimalDigits[d] = c
DigitValue(c) == (CHOOSE d \in 1..10 : DecimalDigits[d] = c) - 1
RECURSIVE digits_value(_)
digits_value(s) ==
    IF s = <<>> THEN 0
    ELSE 10 * digits_value(SubSeq(s, 1, Len(s) - 1)) + DigitValue(s[Len(s)])

\* The decimal text of n, as a client writes it into X-Timestamp.
RECURSIVE digits_of(_)
digits_of(n) ==
    IF n < 10 THEN <<DecimalDigits[n + 1]>>
    ELSE digits_of(n \div 10) \o <<DecimalDigits[(n % 10) + 1]>>
to_string(n) == IF n < 0 THEN <<"-">> \o digits_of(0 - n) ELSE digits_of(n)

\* str::parse::<i64>: an optional sign, then digits only, within the range.
parse_i64(s) ==
    LET signed == s # <<>> /\ Head(s) \in {"+", "-"}
        digits == IF signed THEN Tail(s) ELSE s
        value == IF signed /\ Head(s) = "-" THEN 0 - digits_value(digits)
                 ELSE digits_value(digits)
    IN  IF digits = <<>> \/ (\E i \in 1..Len(digits) : ~IsDigit(digits[i]))
        THEN [ ok |-> FALSE, value |-> 0 ]
        ELSE IF value < I64_MIN \/ value > I64_MAX
        THEN [ ok |-> FALSE, value |-> 0 ]
        ELSE [ ok |-> TRUE, value |-> value ]

parse_timestamp(raw) == parse_i64(trim(raw))

\* HMAC-SHA-256 as an ideal MAC: tags are equal exactly when key and message are.
hmac_sha256(key, message) == [ key |-> key, message |-> message ]

\* The characters of X-Signature: plain characters, and the hex text of a tag
\* in lower or upper case.
Ch(c) == [ ch |-> c ]
HexOf(tag, upper) == [ hex |-> tag, upper |-> upper ]
Chars(s) == [ i \in 1..Len(s) |-> Ch(s[i]) ]
RECURSIVE trim_start_sig(_)
trim_start_sig(s) == IF s # <<>> /\ Head(s) = Ch(" ") THEN trim_start_sig(Tail(s)) ELSE s
RECURSIVE trim_end_sig(_)
trim_end_sig(s) ==
    IF s # <<>> /\ s[Len(s)] = Ch(" ") THEN trim_end_sig(SubSeq(s, 1, Len(s) - 1)) ELSE s

strip_prefix(s, prefix) ==
    IF Len(s) >= Len(prefix) /\ SubSeq(s, 1, Len(prefix)) = prefix
    THEN [ some |-> TRUE, rest |-> SubSeq(s, Len(prefix) + 1, Len(s)) ]
    ELSE [ some |-> FALSE, rest |-> s ]

HexDigits ==
    { "0", "1", "2", "3", "4", "5", "6", "7", "8", "9",
      "a", "b", "c", "d", "e", "f", "A", "B", "C", "D", "E", "F" }

\* hex::decode: an even number of hex digits, in either case.  The bytes of
\* the hex text of a tag are the tag; other digits are bytes that are no tag.
hex_decode(s) ==
    IF Len(s) = 1 /\ "hex" \in DOMAIN s[1]
    THEN [ ok |-> TRUE, bytes |-> s[1].hex ]
    ELSE IF /\ \A i \in 1..Len(s) : "ch" \in DOMAIN s[i] /\ s[i].ch \in HexDigits
            /\ Len(s) % 2 = 0
    THEN [ ok |-> TRUE, bytes |-> [ key |-> <<>>, message |-> s ] ]
    ELSE [ ok |-> FALSE, bytes |-> <<>> ]

parse_signature_hex(raw) ==
    LET trimmed == trim_end_sig(trim_start_sig(raw))
        lower == strip_prefix(trimmed, Chars(<<"s", "h", "a", "2", "5", "6", "=">>))
        upper == strip_prefix(trimmed, Chars(<<"S", "H", "A", "2", "5", "6", "=">>))
        hex_str == IF lower.some THEN lower.rest
                   ELSE IF upper.some THEN upper.rest ELSE trimmed
    IN  IF hex_str = <<>> THEN [ ok |-> FALSE, bytes |-> <<>> ] ELSE hex_decode(hex_str)

\* headers is a function from the names of the headers the request carries.
header_value(headers, name) ==
    IF name \in DOMAIN headers THEN [ ok |-> TRUE, value |-> headers[name] ]
    ELSE [ ok |-> FALSE, value |-> <<>> ]

\* The bytes the MAC is computed over.
signed_message(timestamp, nonce, raw_body) ==
    timestamp \o <<".">> \o nonce \o <<".">> \o raw_body

\* (now - timestamp).abs() > MAX_CLOCK_SKEW_SECONDS on i64: "panic" with
\* overflow checks (debug profile), wrapping without (release profile).
skew_check(t, timestamp, overflow_checks) ==
    LET diff == t - timestamp
        overflows == diff < I64_MIN \/ diff > I64_MAX
        wrapped == wrapping(diff)
    IN  IF overflows /\ overflow_checks THEN "panic"
        ELSE IF wrapped = I64_MIN
        THEN (IF overflow_checks THEN "panic" ELSE "ok")
        ELSE IF (IF wrapped < 0 THEN 0 - wrapped ELSE wrapped) > MAX_CLOCK_SKEW_SECONDS
        THEN "Unauthorized"
        ELSE "ok"

\* verify_internal_hmac up to mac.verify_slice: "ok", "Unauthorized" or "panic".
verify_mac(secret, headers, raw_body, t, overflow_checks) ==
    LET timestamp_raw == header_value(headers, "X-Timestamp")
        nonce_raw == header_value(headers, "X-Nonce")
        signature_raw == header_value(headers, "X-Signature")
        nonce == trim(nonce_raw.value)
        timestamp == parse_timestamp(timestamp_raw.value)
        skew == skew_check(t, timestamp.value, overflow_checks)
        provided_sig == parse_signature_hex(signature_raw.value)
    IN  IF secret = <<>> THEN "Unauthorized"
        ELSE IF ~timestamp_raw.ok \/ ~nonce_raw.ok \/ ~signature_raw.ok THEN "Unauthorized"
        ELSE IF nonce = <<>> \/ Len(nonce) > MAX_NONCE_LEN THEN "Unauthorized"
        ELSE IF ~timestamp.ok THEN "Unauthorized"
        ELSE IF skew # "ok" THEN skew
        ELSE IF ~provided_sig.ok THEN "Unauthorized"
        ELSE IF provided_sig.bytes
                  # hmac_sha256(secret, signed_message(trim(timestamp_raw.value), nonce, raw_body))
        THEN "Unauthorized"
        ELSE "ok"

InTable(rows, nonce) == \E i \in 1..Len(rows) : rows[i] = nonce

\* A plain insert into a table without the unique index.
insert_nonce_always(rows, nonce) == [ inserted |-> TRUE, rows |-> Append(rows, nonce) ]

\* insert .. on conflict (nonce) do nothing: [inserted, rows].
insert_nonce_if_unused(rows, nonce) ==
    IF InTable(rows, nonce)
    THEN [ inserted |-> FALSE, rows |-> rows ]
    ELSE [ inserted |-> TRUE, rows |-> Append(rows, nonce) ]

\* The nonce a request is checked under.
request_nonce(headers) == trim(header_value(headers, "X-Nonce").value)

\* A verifier that stores the nonce before it looks at the MAC.
verify_internal_hmac_nonce_first(secret, headers, raw_body, t, rows, overflow_checks) ==
    LET mac == verify_mac(secret, headers, raw_body, t, overflow_checks)
        ins == insert_nonce_if_unused(rows, request_nonce(headers))
    IN  IF secret = <<>> \/ "X-Nonce" \notin DOMAIN headers
        THEN [ res |-> "Unauthorized", rows |-> rows ]
        ELSE IF ~ins.inserted THEN [ res |-> "Unauthorized", rows |-> ins.rows ]
        ELSE IF mac # "ok" THEN [ res |-> mac, rows |-> ins.rows ]
        ELSE [ res |-> "Ok", rows |-> ins.rows ]

\* [res, rows] of verify_internal_hmac.
verify_internal_hmac(secret, headers, raw_body, t, rows, overflow_checks) ==
    LET mac == verify_mac(secret, headers, raw_body, t, overflow_checks)
        ins == insert_nonce_if_unused(rows, request_nonce(headers))
    IN  IF mac # "ok" THEN [ res |-> mac, rows |-> rows ]
        ELSE IF ~ins.inserted THEN [ res |-> "Unauthorized", rows |-> ins.rows ]
        ELSE [ res |-> "Ok", rows |-> ins.rows ]

\* validate_internal_headers_stub: what the result endpoint checks.
validate_internal_headers_stub(secret) == IF secret = <<>> THEN "Unauthorized" ELSE "Ok"

----------------------------------------------------------------------------
(* Initial state *)

\* No confirm call was answered yet.
NoAnswer ==
    [ verified |-> FALSE, match_status |-> NULL, player2_pubkey |-> NULL,
      tx_sig |-> NULL, expires_at |-> NoTime ]
NoAnswers == [ s \in CreateSigs \cup JoinSigs |-> [ first |-> NoAnswer, latest |-> NoAnswer ] ]

\* The empty database and ledger.
Init ==
    /\ now = 0
    /\ match = NoMatch
    /\ job = NoJob
    /\ chain = NoGame
    /\ txs = [ s \in Sigs |-> NoTx ]
    /\ wk = [ w \in Workers |-> IdleWorker ]
    /\ ccReqs = {}
    /\ jcReqs = [ s \in JoinSigs |-> "none" ]
    /\ last = NoCall
    /\ internal_hmac_secret = Secret
    /\ used_nonces = <<>>
    /\ rfReqs = {}
    /\ answered = NoAnswers

\* The bodies answered Ok to the confirm calls with signature sig, kept for
\* the operations in track.
Remember(track, op, sig, body) ==
    IF op \in track
    THEN [ answered EXCEPT ![sig] = [ first |-> IF @.first.verified THEN @.first ELSE body,
                                      latest |-> body ] ]
    ELSE answered

\* The record of an answered call, kept for the operations in track.
Call(track, op, arg, res) ==
    IF op \in track THEN [ op |-> op, arg |-> arg, res |-> res ] ELSE NoCall

----------------------------------------------------------------------------
(* The clock *)

\* The instants at which a comparison with now() in the code changes its value:
\* the job falls due, the lease goes stale, the join window closes.
Deadlines ==
    { t \in { IF job.exists /\ job.status \in {"pending", "retrying", "submitted"}
              THEN job.next_attempt_at ELSE NoTime,
              IF job.exists /\ job.status \in {"pending", "retrying", "submitted"}
                 /\ job.lock_token # NoToken /\ job.locked_at # NoTime
              THEN job.locked_at + LeaseSeconds + 1 ELSE NoTime,
              IF match.status = "created_on_chain" /\ match.player2_pubkey = NULL
              THEN match.join_expires_at ELSE NoTime } :
        t > now /\ t <= MaxTime }

\* Time passes until one of them.
Tick ==
    /\ \E t \in Deadlines : now' = t
    /\ last' = NoCall
    /\ UNCHANGED <<match, job, chain, txs, wk, ccReqs, jcReqs,
                   internal_hmac_secret, used_nonces, rfReqs, answered>>

----------------------------------------------------------------------------
(* The players and the ledger *)

\* player1 sends the create transaction for the PDAs create_match returned.
ChainCreate ==
    /\ match.status # "absent"
    /\ chain.state = "None"
    /\ chain' = [ NoGame EXCEPT !.state = "Created", !.player1 = match.player1_pubkey,
                                !.player2 = DefaultPubkey, !.authority = match.authority_pubkey,
                                !.match_id = MatchId, !.entry_amount = match.entry_lamports,
                                !.created_at = now ]
    /\ last' = NoCall
    /\ UNCHANGED <<now, match, job, txs, wk, ccReqs, jcReqs,
                   internal_hmac_secret, used_nonces, rfReqs, answered>>

\* player2 sends the join transaction.
ChainJoin ==
    /\ chain.state = "Created"
    /\ chain' = [ chain EXCEPT !.state = "Joined", !.player2 = P2, !.joined_at = now ]
    /\ last' = NoCall
    /\ UNCHANGED <<now, match, job, txs, wk, ccReqs, jcReqs,
                   internal_hmac_secret, used_nonces, rfReqs, answered>>

\* A transaction in flight is executed: the program accepts it ...
TxLand(s) ==
    /\ txs[s].status = "inflight"
    /\ program_accepts(chain, txs[s])
    /\ chain' = program_apply(chain, txs[s])
    /\ txs' = [ txs EXCEPT ![s].status = "landed" ]
    /\ last' = NoCall
    /\ UNCHANGED <<now, match, job, wk, ccReqs, jcReqs,
                   internal_hmac_secret, used_nonces, rfReqs, answered>>

\* ... or rejects it, and the transaction fails on-chain.
TxFail(s) ==
    /\ txs[s].status = "inflight"
    /\ ~program_accepts(chain, txs[s])
    /\ txs' = [ txs EXCEPT ![s].status = "failed" ]
    /\ last' = NoCall
    /\ UNCHANGED <<now, match, job, chain, wk, ccReqs, jcReqs,
                   internal_hmac_secret, used_nonces, rfReqs, answered>>

----------------------------------------------------------------------------
(* HTTP handlers *)

\* POST /matches
CreateMatch(track) ==
    /\ match.status = "absent"
    /\ match' = insert_create_match_record
    /\ last' = Call(track, "create_match", NULL, "Ok")
    /\ UNCHANGED <<now, job, chain, txs, wk, ccReqs, jcReqs,
                   internal_hmac_secret, used_nonces, rfReqs, answered>>

\* POST /matches/{id}/create-confirm, up to the verification of the account:
\* the row is read, and unless the match has moved on the account is fetched
\* and checked; a request that passes goes on to its UPDATE.
ConfirmCreateVerify(sig, track) ==
    /\ match.status # "absent"
    /\ sig \notin ccReqs
    /\ IF match.status # "waiting_create_tx"
       THEN /\ last' = Call(track, "create_confirm", sig, "Ok")
            /\ answered' = Remember(track, "create_confirm", sig,
                                    create_confirm_response(match, sig))
            /\ ccReqs' = ccReqs
       ELSE IF verify_created(match, chain) # "Ok"
       THEN /\ last' = Call(track, "create_confirm", sig, verify_created(match, chain))
            /\ answered' = answered
            /\ ccReqs' = ccReqs
       ELSE /\ last' = NoCall
            /\ answered' = answered
            /\ ccReqs' = ccReqs \cup {sig}
    /\ UNCHANGED <<now, match, job, chain, txs, wk, jcReqs,
                   internal_hmac_secret, used_nonces, rfReqs>>

\* ... and its UPDATE (mark_match_created_on_chain) with the response.
ConfirmCreateUpdate(sig, track) ==
    /\ sig \in ccReqs
    /\ ccReqs' = ccReqs \ {sig}
    /\ match' = mark_match_created_on_chain(match, sig, chain.created_at,
                                            chain.created_at + JoinTimeoutSeconds)
    /\ last' = Call(track, "create_confirm", sig, "Ok")
    /\ answered' = Remember(track, "create_confirm", sig, create_confirm_response(match', sig))
    /\ UNCHANGED <<now, job, chain, txs, wk, jcReqs,
                   internal_hmac_secret, used_nonces, rfReqs>>

\* POST /matches/{id}/join-confirm: the read of the row.
ConfirmJoinRead(sig, track) ==
    /\ match.status # "absent"
    /\ jcReqs[sig] = "none"
    /\ IF match.status = "created_on_chain"
       THEN /\ jcReqs' = [ jcReqs EXCEPT ![sig] = "read" ]
            /\ last' = NoCall
            /\ answered' = answered
       ELSE /\ jcReqs' = jcReqs
            /\ last' = Call(track, "join_confirm", sig,
                            IF match.status = "waiting_create_tx" \/ match.player2_pubkey = NULL
                            THEN "Conflict" ELSE "Ok")
            /\ answered' = IF match.status = "waiting_create_tx" \/ match.player2_pubkey = NULL
                           THEN answered
                           ELSE Remember(track, "join_confirm", sig,
                                         join_confirm_response(match, sig))
    /\ UNCHANGED <<now, match, job, chain, txs, wk, ccReqs,
                   internal_hmac_secret, used_nonces, rfReqs>>

\* ... the fetch and the checks of the account ...
ConfirmJoinVerify(sig, track) ==
    /\ jcReqs[sig] = "read"
    /\ IF verify_joined(match, chain) = "Ok"
       THEN /\ jcReqs' = [ jcReqs EXCEPT ![sig] = "verified" ]
            /\ last' = NoCall
       ELSE /\ jcReqs' = [ jcReqs EXCEPT ![sig] = "none" ]
            /\ last' = Call(track, "join_confirm", sig, verify_joined(match, chain))
    /\ UNCHANGED <<now, match, job, chain, txs, wk, ccReqs,
                   internal_hmac_secret, used_nonces, rfReqs, answered>>

\* ... and its UPDATE (mark_match_joined_on_chain) with the response.
ConfirmJoinUpdate(sig, track) ==
    /\ jcReqs[sig] = "verified"
    /\ jcReqs' = [ jcReqs EXCEPT ![sig] = "none" ]
    /\ LET r == mark_match_joined_on_chain(match, chain.player2, sig, chain.joined_at,
                                           chain.joined_at + SettleTimeoutSeconds)
       IN  /\ match' = r.match
           /\ last' = Call(track, "join_confirm", sig, IF r.ok THEN "Ok" ELSE "Conflict")
           /\ answered' = IF r.ok
                          THEN Remember(track, "join_confirm", sig,
                                        join_confirm_response(r.match, sig))
                          ELSE answered
    /\ UNCHANGED <<now, job, chain, txs, wk, ccReqs,
                   internal_hmac_secret, used_nonces, rfReqs>>

\* POST /matches/{id}/result
SubmitResult(req, track) ==
    /\ LET r == IF validate_internal_headers_stub(internal_hmac_secret) # "Ok"
                THEN [ res |-> "Unauthorized", job |-> job, match |-> match ]
                ELSE submit_result(job, match, req, now)
       IN  /\ match' = r.match
           /\ job' = r.job
           /\ last' = Call(track, "submit_result", req, r.res)
    /\ UNCHANGED <<now, chain, txs, wk, ccReqs, jcReqs,
                   internal_hmac_secret, used_nonces, rfReqs, answered>>

\* POST /admin/matches/{id}/retry-finalization
AdminRetry(track) ==
    /\ LET r == retry_finalization_job(job, match, now)
       IN  /\ match' = r.match
           /\ job' = r.job
           /\ last' = Call(track, "admin_retry", NULL, r.res)
    /\ UNCHANGED <<now, chain, txs, wk, ccReqs, jcReqs,
                   internal_hmac_secret, used_nonces, rfReqs, answered>>

----------------------------------------------------------------------------
(* worker/timeout_watcher.rs *)

\* process_tick: with one match, one call enqueues and the next finds nothing.
TimeoutWatcherTick ==
    /\ join_timeout_candidate(job, match, now)
    /\ LET r == enqueue_next_expired_join_timeout_force_refund(job, match, now)
       IN  /\ match' = r.match
           /\ job' = r.job
    /\ last' = NoCall
    /\ UNCHANGED <<now, chain, txs, wk, ccReqs, jcReqs,
                   internal_hmac_secret, used_nonces, rfReqs, answered>>

----------------------------------------------------------------------------
(* worker/finalizer.rs: process_one_job, one step per await that can interleave *)

\* A claim that keeps the lock token it finds on the row when there is one.
KeptToken == IF job.lock_token # NoToken THEN job.lock_token ELSE 1

TokensInUse == { job.lock_token } \cup { wk[w].job.lock_token : w \in Workers }
FreshToken == CHOOSE t \in Tokens : t \notin TokensInUse
FreshSig == CHOOSE s \in Sigs : txs[s].status = "unsent" /\ \A s2 \in Sigs : txs[s2].status = "unsent" => s <= s2

\* The RPC calls that count an attempt fail only for a job that is new or
\* close to the limit of attempts, which keeps attempt_count bounded.
RpcMayFail(attempt_count) ==
    \/ attempt_count < MaxAttemptCount
    \/ /\ attempt_count >= MAX_FINALIZER_ATTEMPTS - LateAttempts
       /\ attempt_count <= MAX_FINALIZER_ATTEMPTS + 1

\* The worker is back at the top of its loop.
Done(w) == wk' = [ wk EXCEPT ![w] = IdleWorker ]

\* claim_next_due_finalizer_job returned a job.
WorkerClaim(w) ==
    /\ wk[w].pc = "idle"
    /\ claimable(job, now)
    /\ LET r == claim_next_due_finalizer_job(job, FreshToken, now)
       IN  /\ job' = r.job
           /\ wk' = [ wk EXCEPT ![w] = [ IdleWorker EXCEPT !.pc = "fetch", !.job = r.claim ] ]
    /\ last' = NoCall
    /\ UNCHANGED <<now, match, chain, txs, ccReqs, jcReqs,
                   internal_hmac_secret, used_nonces, rfReqs, answered>>

\* fetch_and_decode_game_account_with_client returned the account.
WorkerFetch(w) ==
    /\ wk[w].pc = "fetch"
    /\ chain.state # "None"
    /\ wk' = [ wk EXCEPT ![w].pc = "decide", ![w].decoded = chain ]
    /\ last' = NoCall
    /\ UNCHANGED <<now, match, job, chain, txs, ccReqs, jcReqs,
                   internal_hmac_secret, used_nonces, rfReqs, answered>>

\* The fetch failed (RPC error): process_claimed_job returns Err.
WorkerFetchErr(w) ==
    /\ wk[w].pc = "fetch"
    /\ RpcMayFail(wk[w].job.attempt_count)
    /\ LET r == on_processing_error([ job |-> job, match |-> match ], wk[w].job, now)
       IN  /\ job' = r.job
           /\ match' = r.match
    /\ Done(w)
    /\ last' = NoCall
    /\ UNCHANGED <<now, chain, txs, ccReqs, jcReqs,
                   internal_hmac_secret, used_nonces, rfReqs, answered>>

\* The branches of process_claimed_job that end without a send: authority or
\* cross mismatch, reconciliation with a terminal account, a failed build.
WorkerDecide(w) ==
    /\ wk[w].pc = "decide"
    /\ LET claim == wk[w].job
           what == reconcile(wk[w].decoded, claim)
           r == IF what = "fail"
                THEN try(mark_job_failed(job, match, claim.lock_token, ErrorText, FALSE, now), claim, now)
                ELSE IF what = "confirm"
                THEN try(mark_job_confirmed_and_finalize_match(job, match, claim.lock_token,
                           claim.last_tx_sig, reconciled_status(claim), now), claim, now)
                ELSE on_processing_error([ job |-> job, match |-> match ], claim, now)
       IN  /\ what # "send"
           /\ job' = r.job
           /\ match' = r.match
    /\ Done(w)
    /\ last' = NoCall
    /\ UNCHANGED <<now, chain, txs, ccReqs, jcReqs,
                   internal_hmac_secret, used_nonces, rfReqs, answered>>

\* send_instruction returned a signature: the ledger has the transaction.
WorkerSend(w) ==
    /\ wk[w].pc = "decide"
    /\ reconcile(wk[w].decoded, wk[w].job) = "send"
    /\ \E s \in Sigs : txs[s].status = "unsent"
    /\ LET ix == build_finalization_instruction(wk[w].decoded, wk[w].job)
       IN  txs' = [ txs EXCEPT ![FreshSig] = [ kind |-> ix.kind, winner |-> ix.winner,
                                                status |-> "inflight" ] ]
    /\ wk' = [ wk EXCEPT ![w].pc = "persist", ![w].sig = FreshSig ]
    /\ last' = NoCall
    /\ UNCHANGED <<now, match, job, chain, ccReqs, jcReqs,
                   internal_hmac_secret, used_nonces, rfReqs, answered>>

\* send_instruction failed (blockhash or send): a retry that counts an attempt.
WorkerSendErr(w) ==
    /\ wk[w].pc = "decide"
    /\ reconcile(wk[w].decoded, wk[w].job) = "send"
    /\ RpcMayFail(wk[w].job.attempt_count)
    /\ LET claim == wk[w].job
           r == try(schedule_retry_or_fail(job, match, claim, ErrorText, TRUE, now), claim, now)
       IN  /\ job' = r.job
           /\ match' = r.match
    /\ Done(w)
    /\ last' = NoCall
    /\ UNCHANGED <<now, chain, txs, ccReqs, jcReqs,
                   internal_hmac_secret, used_nonces, rfReqs, answered>>

\* mark_job_submitted; on its error clear_job_lock, and Err to process_one_job.
WorkerPersist(w) ==
    /\ wk[w].pc = "persist"
    /\ LET claim == wk[w].job
           r == mark_job_submitted(job, match, claim.lock_token, wk[w].sig)
           e == on_processing_error([ job |-> clear_job_lock(r.job, claim.lock_token),
                                      match |-> r.match ], claim, now)
       IN  IF r.res = "Ok"
           THEN /\ job' = r.job
                /\ match' = r.match
                /\ wk' = [ wk EXCEPT ![w].pc = "confirm" ]
           ELSE /\ job' = e.job
                /\ match' = e.match
                /\ Done(w)
    /\ last' = NoCall
    /\ UNCHANGED <<now, chain, txs, ccReqs, jcReqs,
                   internal_hmac_secret, used_nonces, rfReqs, answered>>

\* mark_job_submitted failed in the database (a statement or the commit: the
\* transaction is rolled back) while the worker holds the lock: clear_job_lock,
\* then Err to process_one_job, whose schedule_retry_or_fail uses the same token.
WorkerPersistErr(w) ==
    /\ wk[w].pc = "persist"
    /\ LET claim == wk[w].job
           e == on_processing_error([ job |-> clear_job_lock(job, claim.lock_token),
                                      match |-> match ], claim, now)
       IN  /\ job' = e.job
           /\ match' = e.match
    /\ Done(w)
    /\ last' = NoCall
    /\ UNCHANGED <<now, chain, txs, ccReqs, jcReqs,
                   internal_hmac_secret, used_nonces, rfReqs, answered>>

\* A wait that returns Ok as soon as the transaction was sent, seen or not.
signature_confirmed_once_sent(tx) == tx.status \in {"inflight", "landed"}

\* wait_for_signature_confirmation returns Ok: a status came back, without err.
signature_confirmed(tx) == tx.status = "landed"

\* wait_for_signature_confirmation saw the transaction executed without error.
WorkerConfirm(w) ==
    /\ wk[w].pc = "confirm"
    /\ signature_confirmed(txs[wk[w].sig])
    /\ LET claim == wk[w].job
           ix == build_finalization_instruction(wk[w].decoded, claim)
           r == try(mark_job_confirmed_and_finalize_match(job, match, claim.lock_token,
                      wk[w].sig, ix.final_match_status, now), claim, now)
       IN  /\ job' = r.job
           /\ match' = r.match
    /\ Done(w)
    /\ last' = NoCall
    /\ UNCHANGED <<now, chain, txs, ccReqs, jcReqs,
                   internal_hmac_secret, used_nonces, rfReqs, answered>>

\* The transaction was confirmed, and mark_job_confirmed_and_finalize_match
\* failed in the database (begin, a statement or the commit: nothing is
\* written): `?` hands the Err to process_one_job, which schedules a retry
\* with increment_attempt = true under the lock the worker still holds.
WorkerConfirmDbErr(w) ==
    /\ wk[w].pc = "confirm"
    /\ txs[wk[w].sig].status = "landed"
    /\ RpcMayFail(wk[w].job.attempt_count)
    /\ LET r == on_processing_error([ job |-> job, match |-> match ], wk[w].job, now)
       IN  /\ job' = r.job
           /\ match' = r.match
    /\ Done(w)
    /\ last' = NoCall
    /\ UNCHANGED <<now, chain, txs, ccReqs, jcReqs,
                   internal_hmac_secret, used_nonces, rfReqs, answered>>

\* It saw the transaction fail, or got no status in 40 polls, or the RPC failed:
\* a retry that does not count an attempt.
WorkerConfirmErr(w) ==
    /\ wk[w].pc = "confirm"
    /\ LET claim == wk[w].job
           r == try(schedule_retry_or_fail(job, match, claim, ErrorText, FALSE, now), claim, now)
       IN  /\ job' = r.job
           /\ match' = r.match
    /\ Done(w)
    /\ last' = NoCall
    /\ UNCHANGED <<now, chain, txs, ccReqs, jcReqs,
                   internal_hmac_secret, used_nonces, rfReqs, answered>>

\* The process dies (or is restarted) in the middle of a job.
WorkerCrash(w) ==
    /\ wk[w].pc # "idle"
    /\ Done(w)
    /\ last' = NoCall
    /\ UNCHANGED <<now, match, job, chain, txs, ccReqs, jcReqs,
                   internal_hmac_secret, used_nonces, rfReqs, answered>>

----------------------------------------------------------------------------
(* The system *)

\* The whole service around one finalizer process: every handler with its
\* concurrent requests, the watcher, the ledger.
Next ==
    \/ Tick
    \/ ChainCreate
    \/ ChainJoin
    \/ \E s \in Sigs : TxLand(s)
    \/ \E s \in Sigs : TxFail(s)
    \/ CreateMatch({})
    \/ \E sig \in CreateSigs : ConfirmCreateVerify(sig, {})
    \/ \E sig \in CreateSigs : ConfirmCreateUpdate(sig, {})
    \/ \E sig \in JoinSigs : ConfirmJoinRead(sig, {})
    \/ \E sig \in JoinSigs : ConfirmJoinVerify(sig, {})
    \/ \E sig \in JoinSigs : ConfirmJoinUpdate(sig, {})
    \/ \E req \in QueueRequests : SubmitResult(req, {})
    \/ AdminRetry({})
    \/ TimeoutWatcherTick
    \/ \E w \in {"w1"} : WorkerClaim(w)
    \/ \E w \in {"w1"} : WorkerFetch(w)
    \/ \E w \in {"w1"} : WorkerFetchErr(w)
    \/ \E w \in {"w1"} : WorkerDecide(w)
    \/ \E w \in {"w1"} : WorkerSend(w)
    \/ \E w \in {"w1"} : WorkerSendErr(w)
    \/ \E w \in {"w1"} : WorkerPersist(w)
    \/ \E w \in {"w1"} : WorkerConfirm(w)
    \/ \E w \in {"w1"} : WorkerConfirmErr(w)
    \/ \E w \in {"w1"} : WorkerCrash(w)

Spec == Init /\ [][Next]_vars

\* The rows and the account once create_confirm, and then join_confirm, have
\* answered Ok at time 0.
CreatedGame ==
    [ NoGame EXCEPT !.state = "Created", !.player1 = P1, !.player2 = DefaultPubkey,
                    !.authority = AUTH, !.match_id = MatchId,
                    !.entry_amount = EntryLamports, !.created_at = 0 ]
JoinedGame == [ CreatedGame EXCEPT !.state = "Joined", !.player2 = P2, !.joined_at = 0 ]
CreatedMatch ==
    mark_match_created_on_chain(insert_create_match_record, "c1", 0, JoinTimeoutSeconds)
JoinedMatch ==
    mark_match_joined_on_chain(CreatedMatch, P2, "j1", 0, SettleTimeoutSeconds).match

\* A match that waits for its result, or for a second player who never comes.
InitQueue ==
    /\ now = 0
    /\ \E joined \in BOOLEAN :
         /\ match = IF joined THEN JoinedMatch ELSE CreatedMatch
         /\ chain = IF joined THEN JoinedGame ELSE CreatedGame
    /\ job = NoJob
    /\ txs = [ s \in Sigs |-> NoTx ]
    /\ wk = [ w \in Workers |-> IdleWorker ]
    /\ ccReqs = {}
    /\ jcReqs = [ s \in JoinSigs |-> "none" ]
    /\ last = NoCall
    /\ internal_hmac_secret = Secret
    /\ used_nonces = <<>>
    /\ rfReqs = {}
    /\ answered = NoAnswers

\* The finalization queue shared by two finalizer processes, past a lease.
NextQueue ==
    \/ Tick
    \/ \E s \in Sigs : TxLand(s)
    \/ \E s \in Sigs : TxFail(s)
    \/ \E req \in QueueRequests : SubmitResult(req, {})
    \/ AdminRetry({})
    \/ TimeoutWatcherTick
    \/ \E w \in Workers : WorkerClaim(w)
    \/ \E w \in Workers : WorkerFetch(w)
    \/ \E w \in Workers : WorkerFetchErr(w)
    \/ \E w \in Workers : WorkerDecide(w)
    \/ \E w \in Workers : WorkerSend(w)
    \/ \E w \in Workers : WorkerSendErr(w)
    \/ \E w \in Workers : WorkerPersist(w)
    \/ \E w \in Workers : WorkerConfirm(w)
    \/ \E w \in Workers : WorkerConfirmErr(w)

SpecQueue == InitQueue /\ [][NextQueue]_vars

\* The internal endpoints answer for any match id: no match, a match that
\* waits for its create transaction, or one of InitQueue.
InitResult ==
    \/ InitQueue
    \/ Init
    \/ /\ now = 0
       /\ match = insert_create_match_record
       /\ chain = NoGame
       /\ job = NoJob
       /\ txs = [ s \in Sigs |-> NoTx ]
       /\ wk = [ w \in Workers |-> IdleWorker ]
       /\ ccReqs = {}
       /\ jcReqs = [ s \in JoinSigs |-> "none" ]
       /\ last = NoCall
       /\ internal_hmac_secret = Secret
       /\ used_nonces = <<>>
       /\ rfReqs = {}
       /\ answered = NoAnswers

\* The result endpoint and the admin retry: every request, each answer recorded.
NextResult ==
    \/ \E req \in Requests : SubmitResult(req, {"submit_result"})
    \/ AdminRetry({"admin_retry"})
    \/ TimeoutWatcherTick
    \/ \E s \in Sigs : TxLand(s)
    \/ \E s \in Sigs : TxFail(s)
    \/ \E w \in {"w1"} : WorkerClaim(w)
    \/ \E w \in {"w1"} : WorkerFetch(w)
    \/ \E w \in {"w1"} : WorkerFetchErr(w)
    \/ \E w \in {"w1"} : WorkerDecide(w)
    \/ \E w \in {"w1"} : WorkerSend(w)
    \/ \E w \in {"w1"} : WorkerSendErr(w)
    \/ \E w \in {"w1"} : WorkerPersist(w)
    \/ \E w \in {"w1"} : WorkerConfirm(w)
    \/ \E w \in {"w1"} : WorkerConfirmErr(w)
    \/ \E w \in {"w1"} : WorkerCrash(w)
    \/ Tick

SpecResult == InitResult /\ [][NextResult]_vars

----------------------------------------------------------------------------
(* Results that name no player, or a winner where there is none *)

\* A winner who plays in no match, a winner outcome without a winner, a broken
\* outcome with one.
OddRequests ==
    { [ idempotency_key |-> "k1", outcome |-> "winner", winner_pubkey |-> P3, reason_code |-> "gg" ],
      [ idempotency_key |-> "k1", outcome |-> "winner", winner_pubkey |-> NULL, reason_code |-> "gg" ],
      [ idempotency_key |-> "k1", outcome |-> "broken", winner_pubkey |-> P2, reason_code |-> "gg" ] }

NextWinner ==
    \/ \E req \in OddRequests : SubmitResult(req, {"submit_result"})
    \/ NextResult

SpecWinner == InitResult /\ [][NextWinner]_vars

----------------------------------------------------------------------------
(* The confirm calls, sent again while the match moves on *)

ConfirmOps == {"create_confirm", "join_confirm"}

\* The lifecycle of a match from nothing to its final status, with every
\* confirm call remembered. No RPC call of the finalizer fails, so every job
\* takes the path claim, fetch, send, persist, confirm.
NextConfirm ==
    \/ Tick
    \/ ChainCreate
    \/ ChainJoin
    \/ \E s \in Sigs : TxLand(s)
    \/ CreateMatch({})
    \/ \E sig \in CreateSigs : ConfirmCreateVerify(sig, ConfirmOps)
    \/ \E sig \in CreateSigs : ConfirmCreateUpdate(sig, ConfirmOps)
    \/ \E sig \in JoinSigs : ConfirmJoinRead(sig, ConfirmOps)
    \/ \E sig \in JoinSigs : ConfirmJoinVerify(sig, ConfirmOps)
    \/ \E sig \in JoinSigs : ConfirmJoinUpdate(sig, ConfirmOps)
    \/ \E req \in QueueRequests : SubmitResult(req, {})
    \/ TimeoutWatcherTick
    \/ \E w \in {"w1"} : WorkerClaim(w)
    \/ \E w \in {"w1"} : WorkerFetch(w)
    \/ \E w \in {"w1"} : WorkerSend(w)
    \/ \E w \in {"w1"} : WorkerPersist(w)
    \/ \E w \in {"w1"} : WorkerConfirm(w)

SpecConfirm == Init /\ [][NextConfirm]_vars

----------------------------------------------------------------------------
(* A job that has used some of its attempts *)

\* The result every run of this part starts from.
SettleRequest == CHOOSE r \in QueueRequests : r.outcome = "winner"

\* The rows after the result was accepted and attempts sends have failed: the
\* job waits in retrying, the match in finalizing.
RetryingMatch ==
    [ submit_result(NoJob, JoinedMatch, SettleRequest, 0).match EXCEPT
        !.status = "finalizing", !.last_error = ErrorText ]
RetryingJob(attempts) ==
    [ submit_result(NoJob, JoinedMatch, SettleRequest, 0).job EXCEPT
        !.status = "retrying", !.attempt_count = attempts, !.last_error = ErrorText ]

\* The last backoff has just run out.
InitAttempts ==
    /\ now = 0
    /\ match = RetryingMatch
    /\ chain = JoinedGame
    /\ \E attempts \in 1..(MAX_FINALIZER_ATTEMPTS - 1) : job = RetryingJob(attempts)
    /\ txs = [ s \in Sigs |-> NoTx ]
    /\ wk = [ w \in Workers |-> IdleWorker ]
    /\ ccReqs = {}
    /\ jcReqs = [ s \in JoinSigs |-> "none" ]
    /\ last = NoCall
    /\ internal_hmac_secret = Secret
    /\ used_nonces = <<>>
    /\ rfReqs = {}
    /\ answered = NoAnswers

\* One finalizer, the ledger, the admin and a game server that repeats itself.
NextAttempts ==
    \/ Tick
    \/ \E s \in Sigs : TxLand(s)
    \/ \E s \in Sigs : TxFail(s)
    \/ \E req \in QueueRequests : SubmitResult(req, {})
    \/ AdminRetry({"admin_retry"})
    \/ \E w \in {"w1"} : WorkerClaim(w)
    \/ \E w \in {"w1"} : WorkerFetch(w)
    \/ \E w \in {"w1"} : WorkerFetchErr(w)
    \/ \E w \in {"w1"} : WorkerDecide(w)
    \/ \E w \in {"w1"} : WorkerSend(w)
    \/ \E w \in {"w1"} : WorkerSendErr(w)
    \/ \E w \in {"w1"} : WorkerPersist(w)
    \/ \E w \in {"w1"} : WorkerConfirm(w)
    \/ \E w \in {"w1"} : WorkerConfirmErr(w)

SpecAttempts == InitAttempts /\ [][NextAttempts]_vars

\* The finalizer loop polls for ever: an idle worker that finds a due job
\* claims it.
LiveAttempts == SpecAttempts /\ WF_vars(\E w \in {"w1"} : WorkerClaim(w))

----------------------------------------------------------------------------
(* A ledger that is slow to confirm *)

\* A result was just accepted: the job is pending, nothing was sent.
InitFlake ==
    /\ now = 0
    /\ \E req \in QueueRequests :
         /\ match = submit_result(NoJob, JoinedMatch, req, 0).match
         /\ job = submit_result(NoJob, JoinedMatch, req, 0).job
    /\ chain = JoinedGame
    /\ txs = [ s \in Sigs |-> NoTx ]
    /\ wk = [ w \in Workers |-> IdleWorker ]
    /\ ccReqs = {}
    /\ jcReqs = [ s \in JoinSigs |-> "none" ]
    /\ last = NoCall
    /\ internal_hmac_secret = Secret
    /\ used_nonces = <<>>
    /\ rfReqs = {}
    /\ answered = NoAnswers

\* One finalizer whose sends succeed and whose only failures are those of
\* wait_for_signature_confirmation; nobody else touches the job.
NextFlake ==
    \/ Tick
    \/ \E s \in Sigs : TxLand(s)
    \/ \E s \in Sigs : TxFail(s)
    \/ \E w \in {"w1"} : WorkerClaim(w)
    \/ \E w \in {"w1"} : WorkerFetch(w)
    \/ \E w \in {"w1"} : WorkerDecide(w)
    \/ \E w \in {"w1"} : WorkerSend(w)
    \/ \E w \in {"w1"} : WorkerPersist(w)
    \/ \E w \in {"w1"} : WorkerConfirm(w)
    \/ \E w \in {"w1"} : WorkerConfirmErr(w)

SpecFlake == InitFlake /\ [][NextFlake]_vars

----------------------------------------------------------------------------
(* A finalizer that dies or stalls next to one that lives *)

\* The steps of process w1, which is never killed.
LiveWorker ==
    \/ WorkerClaim("w1")
    \/ WorkerFetch("w1")
    \/ WorkerFetchErr("w1")
    \/ WorkerDecide("w1")
    \/ WorkerSend("w1")
    \/ WorkerSendErr("w1")
    \/ WorkerPersist("w1")
    \/ WorkerConfirm("w1")
    \/ WorkerConfirmErr("w1")

\* The steps of process w2, which may stop anywhere, for good or until it is
\* restarted.
FrailWorker ==
    \/ WorkerClaim("w2")
    \/ WorkerFetch("w2")
    \/ WorkerFetchErr("w2")
    \/ WorkerDecide("w2")
    \/ WorkerSend("w2")
    \/ WorkerSendErr("w2")
    \/ WorkerPersist("w2")
    \/ WorkerConfirm("w2")
    \/ WorkerConfirmErr("w2")
    \/ WorkerCrash("w2")

NextLease ==
    \/ Tick
    \/ \E s \in Sigs : TxLand(s)
    \/ \E s \in Sigs : TxFail(s)
    \/ LiveWorker
    \/ FrailWorker

\* The queue holds one pending job, as after an accepted result.
SpecLease == InitFlake /\ [][NextLease]_vars

\* Time passes, and the loop of w1 goes on: neither of its sleeps nor any of
\* its awaits lasts forever.
LiveLease == SpecLease /\ WF_vars(Tick) /\ WF_vars(LiveWorker)

----------------------------------------------------------------------------
(* A finalizer whose database calls may fail *)

NextFaults ==
    \/ Tick
    \/ \E s \in Sigs : TxLand(s)
    \/ \E s \in Sigs : TxFail(s)
    \/ \E w \in {"w1"} : WorkerClaim(w)
    \/ \E w \in {"w1"} : WorkerFetch(w)
    \/ \E w \in {"w1"} : WorkerFetchErr(w)
    \/ \E w \in {"w1"} : WorkerDecide(w)
    \/ \E w \in {"w1"} : WorkerSend(w)
    \/ \E w \in {"w1"} : WorkerSendErr(w)
    \/ \E w \in {"w1"} : WorkerPersist(w)
    \/ \E w \in {"w1"} : WorkerPersistErr(w)
    \/ \E w \in {"w1"} : WorkerConfirm(w)
    \/ \E w \in {"w1"} : WorkerConfirmErr(w)

\* One finalizer alone with a pending job: nothing takes its lock away.
SpecFaults == InitFlake /\ [][NextFaults]_vars

----------------------------------------------------------------------------
(* A Game account the finalizer does not expect *)

\* The key of an authority other than the one this backend signs with.
AUTH2 == "AUTH2"

\* The accounts getAccountInfo may return for the game PDA: in any state of
\* the program, under this or another authority, joined by P2 or by a stranger.
LedgerGames ==
    { [ JoinedGame EXCEPT !.state = st, !.authority = a, !.player2 = p ] :
        st \in {"Joined", "Settled", "Refunded"}, a \in {AUTH, AUTH2}, p \in {P2, P3} }
    \cup { [ CreatedGame EXCEPT !.authority = a ] : a \in {AUTH, AUTH2} }

\* A result was just accepted, and the ledger holds one of these accounts.
InitLedger ==
    /\ now = 0
    /\ \E req \in QueueRequests :
         /\ match = submit_result(NoJob, JoinedMatch, req, 0).match
         /\ job = submit_result(NoJob, JoinedMatch, req, 0).job
    /\ chain \in LedgerGames
    /\ txs = [ s \in Sigs |-> NoTx ]
    /\ wk = [ w \in Workers |-> IdleWorker ]
    /\ ccReqs = {}
    /\ jcReqs = [ s \in JoinSigs |-> "none" ]
    /\ last = NoCall
    /\ internal_hmac_secret = Secret
    /\ used_nonces = <<>>
    /\ rfReqs = {}
    /\ answered = NoAnswers

\* Two finalizer processes and the ledger; a process that is slow at an await
\* finds its lease taken over by the other.
NextLedger ==
    \/ Tick
    \/ \E s \in Sigs : TxLand(s)
    \/ \E s \in Sigs : TxFail(s)
    \/ \E w \in Workers : WorkerClaim(w)
    \/ \E w \in Workers : WorkerFetch(w)
    \/ \E w \in Workers : WorkerFetchErr(w)
    \/ \E w \in Workers : WorkerDecide(w)
    \/ \E w \in Workers : WorkerSend(w)
    \/ \E w \in Workers : WorkerSendErr(w)
    \/ \E w \in Workers : WorkerPersist(w)
    \/ \E w \in Workers : WorkerConfirm(w)
    \/ \E w \in Workers : WorkerConfirmErr(w)

SpecLedger == InitLedger /\ [][NextLedger]_vars

----------------------------------------------------------------------------
(* A database that fails after the submission was persisted *)

NextOutage ==
    \/ NextFaults
    \/ \E w \in {"w1"} : WorkerConfirmDbErr(w)

\* One finalizer alone with a pending job; any of its database calls in
\* process_claimed_job may fail.
SpecOutage == InitFlake /\ [][NextOutage]_vars

----------------------------------------------------------------------------
(* Confirmations against an account that need not be the match's *)

\* The accounts the confirm handlers may decode at the game PDA: none, the
\* right one in each state, and accounts that differ from the row in one
\* field, or whose player2 is still default or is player1 again.
HandshakeGames ==
    LET good == { CreatedGame, JoinedGame, [ JoinedGame EXCEPT !.state = "Settled" ] }
        open == { CreatedGame, JoinedGame }
    IN  {NoGame} \cup good
        \cup { [ g EXCEPT !.player1 = P3 ] : g \in open }
        \cup { [ g EXCEPT !.authority = AUTH2 ] : g \in open }
        \cup { [ g EXCEPT !.match_id = MatchId + 1 ] : g \in open }
        \cup { [ g EXCEPT !.entry_amount = EntryLamports + 1 ] : g \in open }
        \cup { [ JoinedGame EXCEPT !.player2 = p ] : p \in {DefaultPubkey, P1} }

\* The row was inserted by create_match, and perhaps confirmed as created.
InitHandshake ==
    /\ now = 0
    /\ match \in {insert_create_match_record, CreatedMatch}
    /\ chain \in HandshakeGames
    /\ job = NoJob
    /\ txs = [ s \in Sigs |-> NoTx ]
    /\ wk = [ w \in Workers |-> IdleWorker ]
    /\ ccReqs = {}
    /\ jcReqs = [ s \in JoinSigs |-> "none" ]
    /\ last = NoCall
    /\ internal_hmac_secret = Secret
    /\ used_nonces = <<>>
    /\ rfReqs = {}
    /\ answered = NoAnswers

\* The two confirm handlers, concurrent with each other, with the players'
\* transactions and with the timeout watcher; every answer is recorded.
NextHandshake ==
    \/ Tick
    \/ ChainCreate
    \/ ChainJoin
    \/ \E sig \in CreateSigs : ConfirmCreateVerify(sig, ConfirmOps)
    \/ \E sig \in CreateSigs : ConfirmCreateUpdate(sig, ConfirmOps)
    \/ \E sig \in JoinSigs : ConfirmJoinRead(sig, ConfirmOps)
    \/ \E sig \in JoinSigs : ConfirmJoinVerify(sig, ConfirmOps)
    \/ \E sig \in JoinSigs : ConfirmJoinUpdate(sig, ConfirmOps)
    \/ TimeoutWatcherTick

SpecHandshake == InitHandshake /\ [][NextHandshake]_vars

----------------------------------------------------------------------------
(* A job followed to its end *)

\* The instants ahead at which the claim query changes its answer: the job
\* falls due, the lease goes stale.
DeadlinesAhead ==
    { t \in { IF job.exists /\ job.status \in {"pending", "retrying", "submitted"}
              THEN job.next_attempt_at ELSE NoTime,
              IF job.exists /\ job.status \in {"pending", "retrying", "submitted"}
                 /\ job.lock_token # NoToken /\ job.locked_at # NoTime
              THEN job.locked_at + LeaseSeconds + 1 ELSE NoTime } :
        t > now /\ t <= Horizon }

\* Time passes until one of them, however long the backoff.
Wait ==
    /\ \E t \in DeadlinesAhead : now' = t
    /\ last' = NoCall
    /\ UNCHANGED <<match, job, chain, txs, wk, ccReqs, jcReqs,
                   internal_hmac_secret, used_nonces, rfReqs, answered>>

\* A settle job that has failed often: it is retrying, due, and few attempts
\* are left to it.
InitLate ==
    /\ now = 0
    /\ match = RetryingMatch
    /\ chain = JoinedGame
    /\ \E attempts \in (MAX_FINALIZER_ATTEMPTS - LateAttempts)..(MAX_FINALIZER_ATTEMPTS - 1) :
         job = RetryingJob(attempts)
    /\ txs = [ s \in Sigs |-> NoTx ]
    /\ wk = [ w \in Workers |-> IdleWorker ]
    /\ ccReqs = {}
    /\ jcReqs = [ s \in JoinSigs |-> "none" ]
    /\ last = NoCall
    /\ internal_hmac_secret = Secret
    /\ used_nonces = <<>>
    /\ rfReqs = {}
    /\ answered = NoAnswers

\* One finalizer and a ledger that answers every call, with success or with
\* failure; no admin, and a database that works.
NextLate ==
    \/ Wait
    \/ \E s \in Sigs : TxLand(s)
    \/ \E s \in Sigs : TxFail(s)
    \/ LiveWorker

SpecLate == InitLate /\ [][NextLate]_vars

\* Time passes, and the loop of the finalizer goes on: none of its awaits
\* lasts forever.
LiveLate == SpecLate /\ WF_vars(Wait) /\ WF_vars(LiveWorker)

----------------------------------------------------------------------------
(* The two internal entry points with the headers of their requests *)

\* The overflow-checks setting of the build profile.
OverflowChecks == BOOLEAN

NoHeaders == << >>
\* The headers a holder of key sends for a body, as the verifier expects them.
SignedHeaders(key, timestamp, nonce, raw_body) ==
    [ n \in {"X-Timestamp", "X-Nonce", "X-Signature"} |->
        CASE n = "X-Timestamp" -> timestamp
          [] n = "X-Nonce" -> nonce
          [] OTHER -> <<HexOf(hmac_sha256(key, signed_message(trim(timestamp), trim(nonce), raw_body)), FALSE)>> ]

N1 == <<"n", "1">>
N2 == <<"n", "2">>

\* The bytes of a result request (the fields serde reads, in order).
result_body(req) ==
    <<req.idempotency_key, req.outcome, req.winner_pubkey, req.reason_code>>

\* The body of a retry-finalization request, and serde_json::from_slice on it.
RetryBody(reason) == <<"{", "reason", ":", reason, "}">>
from_slice(raw_body) ==
    IF Len(raw_body) = 5 /\ raw_body = RetryBody(raw_body[4])
    THEN [ ok |-> TRUE, reason |-> raw_body[4] ]
    ELSE [ ok |-> FALSE, reason |-> "" ]
\* payload.reason.trim().is_empty()
reason_is_blank(reason) == reason \in {"", " "}

\* Result requests: the settle request signed by the game server, and the
\* refund request without headers or signed by somebody who does not hold
\* the secret.  Each payload comes with one set of headers, so that a second
\* request with the payload of an accepted one is a replay of it.
AuthResultRequests ==
    { [ headers |-> SignedHeaders(Secret, <<"0">>, N1, result_body(req)), payload |-> req ] :
        req \in { q \in QueueRequests : q.outcome = "winner" } }
    \cup { [ headers |-> NoHeaders, payload |-> req ] :
             req \in { q \in QueueRequests : q.outcome = "broken" } }
    \cup { [ headers |-> SignedHeaders(WrongSecret, <<"0">>, N2, result_body(req)), payload |-> req ] :
             req \in { q \in QueueRequests : q.outcome = "broken" } }

\* Retry requests: signed ones that share a nonce or not, one whose body is
\* refused after verification, and ones that are unsigned, forged or altered.
AdminRequests ==
    { [ headers |-> SignedHeaders(Secret, <<"0">>, N1, RetryBody("fix")), body |-> RetryBody("fix") ],
      [ headers |-> SignedHeaders(Secret, <<"0">>, N1, RetryBody("again")), body |-> RetryBody("again") ],
      [ headers |-> SignedHeaders(Secret, <<"0">>, N2, RetryBody("fix")), body |-> RetryBody("fix") ],
      [ headers |-> SignedHeaders(Secret, <<"0">>, N2, RetryBody(" ")), body |-> RetryBody(" ") ],
      [ headers |-> SignedHeaders(WrongSecret, <<"0">>, N2, RetryBody("fix")), body |-> RetryBody("fix") ],
      [ headers |-> SignedHeaders(Secret, <<"0">>, N2, RetryBody("fix")), body |-> RetryBody("again") ],
      [ headers |-> NoHeaders, body |-> RetryBody("fix") ] }

\* The connections retry requests arrive on; each handles one at a time.
Conns == {1, 2}

\* POST /matches/{id}/result with its headers: they are not read.
PostResult(request, track) ==
    /\ LET r == IF validate_internal_headers_stub(internal_hmac_secret) # "Ok"
                THEN [ res |-> "Unauthorized", job |-> job, match |-> match ]
                ELSE submit_result(job, match, request.payload, now)
       IN  /\ match' = r.match
           /\ job' = r.job
           /\ last' = Call(track, "submit_result", request, r.res)
    /\ UNCHANGED <<now, chain, txs, wk, ccReqs, jcReqs,
                   internal_hmac_secret, used_nonces, rfReqs, answered>>

\* POST /admin/matches/{id}/retry-finalization, up to mac.verify_slice ...
RetryVerifyMac(c, request, overflow_checks, track) ==
    /\ \A p \in rfReqs : p[1] # c
    /\ LET mac == verify_mac(internal_hmac_secret, request.headers, request.body, now,
                             overflow_checks)
       IN  IF mac = "ok"
           THEN /\ rfReqs' = rfReqs \cup {<<c, request>>}
                /\ last' = NoCall
           ELSE /\ rfReqs' = rfReqs
                /\ last' = Call(track, "admin_retry", request, mac)
    /\ UNCHANGED <<now, match, job, chain, txs, wk, ccReqs, jcReqs,
                   internal_hmac_secret, used_nonces, answered>>

\* ... and from insert_nonce_if_unused to the response.
RetryFinalization(c, track) ==
    \E p \in rfReqs :
        /\ p[1] = c
        /\ rfReqs' = rfReqs \ {p}
        /\ LET request == p[2]
               ins == insert_nonce_if_unused(used_nonces, request_nonce(request.headers))
               payload == from_slice(request.body)
               r == IF ~ins.inserted
                    THEN [ res |-> "Unauthorized", job |-> job, match |-> match ]
                    ELSE IF ~payload.ok \/ reason_is_blank(payload.reason)
                    THEN [ res |-> "BadRequest", job |-> job, match |-> match ]
                    ELSE retry_finalization_job(job, match, now)
           IN  /\ used_nonces' = ins.rows
               /\ match' = r.match
               /\ job' = r.job
               /\ last' = Call(track, "admin_retry", request, r.res)
        /\ UNCHANGED <<now, chain, txs, wk, ccReqs, jcReqs, internal_hmac_secret, answered>>

\* The deployment with or without a secret, before any internal request.
InitAuth ==
    /\ now = 0
    /\ \E joined \in BOOLEAN :
         /\ match = IF joined THEN JoinedMatch ELSE CreatedMatch
         /\ chain = IF joined THEN JoinedGame ELSE CreatedGame
    /\ job = NoJob
    /\ txs = [ s \in Sigs |-> NoTx ]
    /\ wk = [ w \in Workers |-> IdleWorker ]
    /\ ccReqs = {}
    /\ jcReqs = [ s \in JoinSigs |-> "none" ]
    /\ last = NoCall
    /\ internal_hmac_secret \in {<<>>, Secret}
    /\ used_nonces = <<>>
    /\ rfReqs = {}
    /\ answered = NoAnswers

\* Internal requests of every kind against the rows, with the watcher.
NextAuth ==
    \/ \E request \in AuthResultRequests : PostResult(request, ApiOps)
    \/ \E c \in Conns, request \in AdminRequests, oc \in OverflowChecks :
          RetryVerifyMac(c, request, oc, ApiOps)
    \/ \E c \in Conns : RetryFinalization(c, ApiOps)
    \/ TimeoutWatcherTick
    \/ Tick

SpecAuth == InitAuth /\ [][NextAuth]_vars

----------------------------------------------------------------------------
(* verify_internal_hmac on its own *)

\* The clock readings the verifier is tried at.
VerifyTimes == {0, 5}

\* X-Timestamp values: around both ends of the skew window, at the ends of
\* the i64 range, with blanks and a sign, and texts that are no number.
TimestampTexts ==
    { to_string(n) : n \in { 0, 5, 300, 301, 305, 306, 0 - 300, 0 - 301, 0 - 295, 0 - 296,
                             I64_MIN, I64_MIN + 5, I64_MAX, I64_MAX + 1 } }
    \cup { <<" ", "3", "0", "0", " ">>, <<"+", "5">>, <<>>, <<"1", "x">>, <<"1", ".", "0">> }

\* X-Nonce values: plain, padded with blanks, empty, blank, at and over the limit.
NonceTexts ==
    { N1, N2, <<" ", "n", "1", " ">>, <<>>, <<" ">>,
      [ i \in 1..MAX_NONCE_LEN |-> "m" ], [ i \in 1..(MAX_NONCE_LEN + 1) |-> "m" ] }

VerifyBody == RetryBody("fix")

\* X-Signature values for a timestamp and a nonce: the hex text of the right
\* tag in the accepted and in other spellings, of other tags, and texts that
\* are no hex.
SignatureTexts(timestamp, nonce) ==
    LET tag == hmac_sha256(Secret, signed_message(trim(timestamp), trim(nonce), VerifyBody))
    IN  { <<HexOf(tag, FALSE)>>,
          <<HexOf(tag, TRUE)>>,
          Chars(<<"s", "h", "a", "2", "5", "6", "=">>) \o <<HexOf(tag, FALSE)>>,
          Chars(<<"S", "H", "A", "2", "5", "6", "=">>) \o <<HexOf(tag, FALSE)>>,
          Chars(<<"S", "h", "a", "2", "5", "6", "=">>) \o <<HexOf(tag, FALSE)>>,
          <<Ch(" "), HexOf(tag, FALSE), Ch(" ")>>,
          <<HexOf(hmac_sha256(WrongSecret, tag.message), FALSE)>>,
          <<HexOf(hmac_sha256(Secret, signed_message(trim(timestamp), trim(nonce), RetryBody("again"))), FALSE)>>,
          <<HexOf(hmac_sha256(Secret, signed_message(timestamp, nonce, VerifyBody)), FALSE)>>,
          << >>,
          Chars(<<"s", "h", "a", "2", "5", "6", "=">>),
          Chars(<<"z", "z">>),
          Chars(<<"a", "b", "c">>),
          Chars(<<"a", "b">>) }

\* A header map without the headers in absent.
Without(headers, absent) == [ n \in DOMAIN headers \ absent |-> headers[n] ]

\* The header maps tried: every timestamp with every nonce and signature, and
\* a correctly signed request with one header, or all, taken away.
VerifyHeaders ==
    UNION { { [ n \in {"X-Timestamp", "X-Nonce", "X-Signature"} |->
                  CASE n = "X-Timestamp" -> timestamp
                    [] n = "X-Nonce" -> nonce
                    [] OTHER -> signature ] : signature \in SignatureTexts(timestamp, nonce) } :
            timestamp \in TimestampTexts, nonce \in NonceTexts }
    \cup { Without(SignedHeaders(Secret, <<"0">>, N2, VerifyBody), absent) :
             absent \in { {"X-Timestamp"}, {"X-Nonce"}, {"X-Signature"},
                          {"X-Timestamp", "X-Nonce", "X-Signature"} } }

\* A request before the verifier, with or without a secret configured and
\* with nonce n1 consumed earlier or not.
InitVerify ==
    /\ now \in VerifyTimes
    /\ match = NoMatch
    /\ job = NoJob
    /\ chain = NoGame
    /\ txs = [ s \in Sigs |-> NoTx ]
    /\ wk = [ w \in Workers |-> IdleWorker ]
    /\ ccReqs = {}
    /\ jcReqs = [ s \in JoinSigs |-> "none" ]
    /\ \E headers \in VerifyHeaders :
         last = [ op |-> "request", arg |-> [ headers |-> headers, body |-> VerifyBody ],
                  res |-> NULL ]
    /\ internal_hmac_secret \in {<<>>, Secret}
    /\ used_nonces \in {<<>>, <<N1>>}
    /\ rfReqs = {}
    /\ answered = NoAnswers

\* verify_internal_hmac on the request, a first time and again.
VerifyInternalHmac(overflow_checks) ==
    /\ last.op \in {"request", "verify_internal_hmac"}
    /\ LET r == verify_internal_hmac(internal_hmac_secret, last.arg.headers, last.arg.body,
                                     now, used_nonces, overflow_checks)
       IN  /\ used_nonces' = r.rows
           /\ last' = [ op |-> "verify_internal_hmac", arg |-> last.arg, res |-> r.res ]
    /\ UNCHANGED <<now, match, job, chain, txs, wk, ccReqs, jcReqs,
                   internal_hmac_secret, rfReqs, answered>>

NextVerify == \E overflow_checks \in OverflowChecks : VerifyInternalHmac(overflow_checks)

SpecVerify == InitVerify /\ [][NextVerify]_vars

----------------------------------------------------------------------------
(* Exactly-once finalization *)

\* The finalization transactions that took effect on the ledger.
Landed == { s \in Sigs : txs[s].status = "landed" }

----------------------------------------------------------------------------
(* Absorbing statuses *)

\* C2: once the job is confirmed, no step (a worker's mark_job_* call with any
\* token, admin retry, a duplicate result, the watcher) changes its status.
C2_ConfirmedIsAbsorbing == [][job.status = "confirmed" => job'.status = "confirmed"]_vars

\* The job is confirmed while another worker, claimed earlier, is still about
\* to write with its stale token.
C2_ConfirmedWithStaleWorker ==
    /\ job.status = "confirmed"
    /\ \E w \in Workers : wk[w].pc \in {"decide", "persist", "confirm"}

\* C3: once match_status is settled or refunded, no step of any handler, of
\* the watcher or of a finalizer changes it (it never flips between the two).
C3_TerminalMatchStatusIsAbsorbing ==
    [][match.status \in TerminalStatus => match'.status = match.status]_vars

\* The match is final while a create-confirm that read the row earlier has
\* still to run its UPDATE.
C3_TerminalWithStaleConfirm == match.status \in TerminalStatus /\ ccReqs # {}

----------------------------------------------------------------------------
(* The lifecycle of match_status *)

\* The forward edges of the lifecycle, with the insertion of the row.
LifecycleEdges ==
    { <<"absent", "waiting_create_tx">>,
      <<"waiting_create_tx", "created_on_chain">>,
      <<"created_on_chain", "joined_on_chain">>,
      <<"created_on_chain", "result_pending_finalize">>,
      <<"joined_on_chain", "result_pending_finalize">>,
      <<"in_progress", "result_pending_finalize">>,
      <<"result_pending_finalize", "finalizing">>,
      <<"finalizing", "settled">>,
      <<"finalizing", "refunded">> }

\* A reconciled confirmation finalizes a match that was never marked finalizing.
ReconcileEdges ==
    { <<"result_pending_finalize", "settled">>,
      <<"result_pending_finalize", "refunded">> }

\* C4 as stated: every change of match_status is one of the forward edges of
\* the lifecycle, and a final status is entered from finalizing only.
C4_OnlyLifecycleEdges ==
    [][match'.status # match.status
         => <<match.status, match'.status>> \in LifecycleEdges]_vars

\* C4 amended: every change of match_status is a forward edge of the lifecycle
\* or the edge from result_pending_finalize straight to settled or refunded.
C4_LifecycleOrReconcileEdges ==
    [][match'.status # match.status
         => <<match.status, match'.status>> \in LifecycleEdges \cup ReconcileEdges]_vars

\* A worker that holds the lock has decoded a terminal account and is about to
\* confirm, while the match is still result_pending_finalize.
C4_ReconcileBeforeFinalizing ==
    /\ match.status = "result_pending_finalize"
    /\ \E w \in Workers :
         /\ wk[w].pc = "decide"
         /\ reconcile(wk[w].decoded, wk[w].job) = "confirm"
         /\ holds_lock(job, wk[w].job.lock_token)

----------------------------------------------------------------------------
(* Ownership of the job *)

\* The workers between a successful claim of the job and the end of their
\* processing of it.
Owners == { w \in Workers : wk[w].pc # "idle" }

\* C5: two finalizer workers are never both between a successful claim of the
\* job and the end of their processing of it.
C5_OneOwnerAtATime == Cardinality(Owners) <= 1

\* The workers whose claim carries the stored lock token while the lease is fresh.
LeaseHolders ==
    { w \in Owners :
        /\ job.lock_token # NoToken
        /\ wk[w].job.lock_token = job.lock_token
        /\ job.locked_at # NoTime
        /\ job.locked_at >= now - LeaseSeconds }

\* C6: at every instant at most one worker holds a valid lease on the job: a
\* claim whose lock_token is the stored non-null lock_token, locked_at within
\* the last 30 seconds.
C6_AtMostOneValidLease == Cardinality(LeaseHolders) <= 1

\* Two workers are processing the job and exactly one of them holds the lease.
C6_TwoOwnersOneLease == Cardinality(Owners) = 2 /\ Cardinality(LeaseHolders) = 1

----------------------------------------------------------------------------
(* The signature of a confirmed job *)

\* C7: a confirmed job has a non-null last_tx_sig, and its match a final_tx_sig
\* equal to it and a non-null finalized_at, whether the worker confirmed its
\* own submission or reconciled with a terminal account.
C7_ConfirmedJobHasSignature ==
    job.status = "confirmed"
        => /\ job.last_tx_sig # NoSig
           /\ match.final_tx_sig = job.last_tx_sig
           /\ match.finalized_at # NoTime

----------------------------------------------------------------------------
(* The result endpoint *)

\* The result recorded for the match is the one req asks for.
Recorded(req) ==
    /\ job.exists
    /\ match.result_idempotency_key = req.idempotency_key
    /\ match.finalization_reason_code = req.reason_code
    /\ match.winner_pubkey = result_params(req).winner_pubkey
    /\ job.job_type = result_params(req).job_type
    /\ job.winner_pubkey = result_params(req).winner_pubkey

\* C8: a submit-result equal to the recorded one in key, outcome, winner and
\* reason code answers Ok and leaves the one job row as it was, whatever the
\* job and the match have become since.
C8_IdenticalResubmitKeepsJob ==
    [][(last'.op = "submit_result" /\ Recorded(last'.arg))
         => (last'.res = "Ok" /\ job' = job /\ job.exists)]_vars

\* The result was submitted again, and answered Ok, after the job was confirmed.
C8_ResubmitAfterConfirmed ==
    /\ last.op = "submit_result"
    /\ last.res = "Ok"
    /\ job.status = "confirmed"

\* C9: once a result is recorded, a submit-result that differs from it in key,
\* outcome, winner or reason code answers Conflict and leaves the match row
\* and the job row unchanged.
C9_DifferentResultConflicts ==
    [][(last'.op = "submit_result" /\ match.result_idempotency_key # NULL /\ ~Recorded(last'.arg))
         => (last'.res = "Conflict" /\ match' = match /\ job' = job)]_vars

\* A refund is recorded (no winner); a request with its key and reason but a
\* winner passed the UPDATE of the match, met the force_refund job, and was undone.
C9_RolledBackAfterJobConflict ==
    /\ last.op = "submit_result"
    /\ last.res = "Conflict"
    /\ last.arg.outcome = "winner"
    /\ last.arg.idempotency_key = match.result_idempotency_key
    /\ last.arg.reason_code = match.finalization_reason_code
    /\ job.job_type = "force_refund"
    /\ match.winner_pubkey = NULL

\* The recorded result: what no later request may change.
RecordedResult ==
    <<match.result_idempotency_key, match.winner_pubkey, match.finalization_reason_code,
      job.exists, job.job_type, job.winner_pubkey>>

\* C10: of the requests that reach a joined match, the first is accepted and
\* any accepted one is the recorded one: an accepted request leaves its own
\* key, winner, reason and job recorded, and a recorded result never changes, so
\* two requests that differ are never both accepted.
C10_OneRequestAccepted ==
    [][/\ (last'.op = "submit_result" /\ match.status = "joined_on_chain")
            => (last'.res = "Ok")
       /\ (last'.op = "submit_result" /\ last'.res = "Ok")
            => (job'.exists /\ match'.result_idempotency_key = last'.arg.idempotency_key
                /\ match'.finalization_reason_code = last'.arg.reason_code
                /\ match'.winner_pubkey = result_params(last'.arg).winner_pubkey
                /\ job'.job_type = result_params(last'.arg).job_type
                /\ job'.winner_pubkey = result_params(last'.arg).winner_pubkey)
       /\ (match.result_idempotency_key # NULL) => (RecordedResult' = RecordedResult)]_vars

\* A request with another key was refused right after the first was accepted:
\* the job is still untouched.
C10_SecondKeyRefused ==
    /\ last.op = "submit_result"
    /\ last.res = "Conflict"
    /\ match.result_idempotency_key \notin {NULL, last.arg.idempotency_key}
    /\ job.status = "pending" /\ job.lock_token = NoToken /\ job.attempt_count = 0

----------------------------------------------------------------------------
(* Result submission before the match is ready *)

\* C11: a submit-result for a match in waiting_create_tx or created_on_chain
\* answers Conflict, creates no chain job and leaves the match row as it was.
C11_NotReadyConflicts ==
    [][ (last'.op = "submit_result" /\ match.status \in {"waiting_create_tx", "created_on_chain"})
        => (last'.res = "Conflict" /\ job' = job /\ match' = match) ]_vars

\* A refund request, which passes every other check of the handler, refused
\* on a match that nobody joined; and a request refused before the create
\* transaction was confirmed.
C11_RefusedBeforeJoin ==
    /\ last.op = "submit_result"
    /\ last.res = "Conflict"
    /\ last.arg.outcome = "broken"
    /\ match.status = "created_on_chain"
    /\ ~job.exists

----------------------------------------------------------------------------
(* The HMAC gate of the internal entry points *)

\* The bytes the signature of an answered internal call has to cover.
RawBody(call) == IF call.op = "submit_result" THEN result_body(call.arg.payload) ELSE call.arg.body

\* The MAC of an answered internal call is right: timestamp, nonce and
\* signature over timestamp.nonce.body pass the verifier.
MacPasses(call) ==
    \E oc \in OverflowChecks :
        verify_mac(internal_hmac_secret, call.arg.headers, RawBody(call), now, oc) = "ok"

\* C12: a submit-result or admin-retry request changes the match row or the
\* chain job only if the HMAC verification of that request succeeded first:
\* its MAC passes and its nonce was consumed by the request.
C12_MutationOnlyAfterHmac ==
    [][ (last'.op \in {"submit_result", "admin_retry"} /\ (match' # match \/ job' # job))
        => /\ MacPasses(last')
           /\ ~InTable(used_nonces, request_nonce(last'.arg.headers))
           /\ InTable(used_nonces', request_nonce(last'.arg.headers)) ]_vars

\* C13: after a correctly signed submit-result request was accepted, the same
\* headers and body sent again are answered Unauthorized.
C13_ResultReplayUnauthorized ==
    [][ (/\ last'.op = "submit_result"
         /\ MacPasses(last')
         /\ Recorded(last'.arg.payload))
        => last'.res = "Unauthorized" ]_vars

\* What the specification asks of a request for the verifier to pass: a
\* secret, the three headers, a nonce of 1 to 128 characters after trimming, a
\* timestamp that parses and lies within 300 s of the clock, a signature that
\* decodes to the MAC of timestamp.nonce.body, and a nonce not used before.
ShouldPass(secret, headers, raw_body, t, rows) ==
    /\ secret # <<>>
    /\ {"X-Timestamp", "X-Nonce", "X-Signature"} \subseteq DOMAIN headers
    /\ LET nonce == trim(headers["X-Nonce"])
           timestamp == parse_timestamp(headers["X-Timestamp"])
           signature == parse_signature_hex(headers["X-Signature"])
       IN  /\ nonce # <<>>
           /\ Len(nonce) <= MAX_NONCE_LEN
           /\ timestamp.ok
           /\ t - timestamp.value <= MAX_CLOCK_SKEW_SECONDS
           /\ timestamp.value - t <= MAX_CLOCK_SKEW_SECONDS
           /\ signature.ok
           /\ signature.bytes
                = hmac_sha256(secret, signed_message(trim(headers["X-Timestamp"]), nonce, raw_body))
           /\ ~InTable(rows, nonce)

\* C14: verify_internal_hmac succeeds exactly for the requests that should
\* pass, and answers Unauthorized for every other one.
C14_VerifierPassesIffValid ==
    [][ last'.op = "verify_internal_hmac"
        => /\ last'.res \in {"Ok", "Unauthorized"}
           /\ last'.res = "Ok"
                <=> ShouldPass(internal_hmac_secret, last'.arg.headers, last'.arg.body,
                               now, used_nonces) ]_vars

----------------------------------------------------------------------------
(* Nonce replay *)

\* C15: of the correctly signed requests that carry one nonce, one after the
\* other or at the same time, the first to reach the nonce store passes
\* verification and every other one is answered Unauthorized; rows of
\* used_nonces are never removed and no nonce is stored twice.
C15_OneRequestPerNonce ==
    [][ /\ \A i, j \in 1..Len(used_nonces') : used_nonces'[i] = used_nonces'[j] => i = j
        /\ SubSeq(used_nonces', 1, Len(used_nonces)) = used_nonces
        /\ (last'.op = "admin_retry" /\ MacPasses(last'))
           => IF InTable(used_nonces, request_nonce(last'.arg.headers))
              THEN last'.res = "Unauthorized" /\ used_nonces' = used_nonces
              ELSE /\ last'.res # "Unauthorized"
                   /\ used_nonces' = Append(used_nonces, request_nonce(last'.arg.headers)) ]_vars

\* Two requests with nonce n1 passed the MAC check together; one was answered
\* first and the other, still in flight, finds the nonce stored.
C15_ConcurrentSameNonce ==
    /\ last.op = "admin_retry"
    /\ last.res = "Ok"
    /\ request_nonce(last.arg.headers) = N1
    /\ used_nonces = <<N1>>
    /\ \E p \in rfReqs : request_nonce(p[2].headers) = N1 /\ p[2] # last.arg

----------------------------------------------------------------------------
(* Admin retry *)

\* C16: an admin retry for a match that is not final and whose chain job is
\* failed answers Ok, puts the job back to pending with lock_token, locked_at
\* and last_error cleared and next_attempt_at = now, moves the match to
\* finalizing if it was in result_pending_finalize or finalizing, and leaves
\* the job claimable; an idle finalizer then claims it.
C16_RetryRevivesFailedJob ==
    /\ [][ (last'.op = "admin_retry" /\ job.status = "failed" /\ match.status \notin TerminalStatus)
           => /\ last'.res = "Ok"
              /\ job' = [ job EXCEPT !.status = "pending", !.lock_token = NoToken,
                                     !.locked_at = NoTime, !.last_error = NULL,
                                     !.next_attempt_at = now ]
              /\ match'.status = IF match.status \in {"result_pending_finalize", "finalizing"}
                                 THEN "finalizing" ELSE match.status
              /\ claimable(job', now) ]_vars
    /\ (last.op = "admin_retry" /\ last.res = "Ok" /\ wk["w1"].pc = "idle")
         ~> (job.lock_token # NoToken /\ wk["w1"].job.lock_token = job.lock_token)

\* A job that failed at the limit of attempts, revived by the admin and
\* claimed again by the finalizer.
C16_RevivedAndClaimed ==
    /\ job.status = "pending"
    /\ job.attempt_count >= MAX_FINALIZER_ATTEMPTS
    /\ job.last_error = NULL
    /\ match.status = "finalizing"
    /\ wk["w1"].pc = "fetch"
    /\ wk["w1"].job.lock_token = job.lock_token

\* C17: an admin retry answers Conflict when the match is settled or refunded
\* or the job is confirmed, NotFound when there is no match or no chain job
\* for it, and in each of these cases leaves both rows as they were.
C17_RetryErrorsChangeNothing ==
    [][ last'.op = "admin_retry"
        => /\ (match.status \in TerminalStatus \/ (job.exists /\ job.status = "confirmed"))
                => last'.res = "Conflict"
           /\ (match.status = "absent" \/ ~job.exists) => last'.res = "NotFound"
           /\ last'.res \in {"Conflict", "NotFound"} => (match' = match /\ job' = job) ]_vars

\* A retry refused for a match the finalizer has settled or refunded.
C17_RetryRefusedAfterFinal ==
    /\ last.op = "admin_retry"
    /\ last.res = "Conflict"
    /\ match.status \in TerminalStatus
    /\ job.status = "confirmed"

----------------------------------------------------------------------------
(* The limit of attempts *)

\* A step in which a finalizer records the failure of its processing:
\* mark_job_retrying or mark_job_failed under its lock.
FailureRecorded ==
    /\ job.lock_token # NoToken
    /\ job'.lock_token = NoToken
    /\ job'.status \in {"retrying", "failed"}

\* C18: once the stored attempt_count of a job is 10 or more, the next failure
\* of its processing marks it failed instead of retrying; and a failed job is
\* left alone (never claimed) until an admin retry revives it.
C18_FailedAtTheLimit ==
    [][ /\ (job.attempt_count >= MAX_FINALIZER_ATTEMPTS /\ FailureRecorded)
           => job'.status = "failed"
        /\ job.status = "failed" => (job' = job \/ last'.op = "admin_retry") ]_vars

----------------------------------------------------------------------------
(* Retry backoff *)

\* The delays of the retry policy for 1, 2, .. 6 attempts.
BackoffTable == <<2, 4, 8, 16, 32, 60>>
ExpectedBackoff(n) == IF n <= 0 THEN 2 ELSE IF n > 6 THEN 60 ELSE BackoffTable[n]

\* The attempts schedule_retry_or_fail counts in a step that records a
\* failure: those of the claimed job plus the one the step adds.
ProjectedAttempts ==
    LET w == CHOOSE w \in Workers : wk[w].pc # "idle" /\ wk[w].job.lock_token = job.lock_token
    IN  wk[w].job.attempt_count + (job'.attempt_count - job.attempt_count)

\* C19: the retry delay for n attempts is min(2^clamp(n,1,6), 60) seconds: 2, 4,
\* 8, 16, 32, 60 for n = 1..6, 60 above and 2 for n <= 0; and a job put into
\* retrying is due at now + that delay and claimable at no time before.
C19_BackoffDelaysTheRetry ==
    [][ /\ \A n \in (0 - 2)..(MAX_FINALIZER_ATTEMPTS + 2) :
             retry_backoff_seconds(n) = ExpectedBackoff(n)
        /\ (FailureRecorded /\ job'.status = "retrying")
           => /\ job'.next_attempt_at = now + ExpectedBackoff(ProjectedAttempts)
              /\ \A t \in now..(job'.next_attempt_at - 1) : ~claimable(job', t) ]_vars

\* A job sent back to wait the longest delay, not claimable now.
C19_WaitingTheFullBackoff ==
    /\ job.status = "retrying"
    /\ job.next_attempt_at = now + MAX_BACKOFF_SECONDS
    /\ ~claimable(job, now)
    /\ wk["w1"].pc = "idle"

----------------------------------------------------------------------------
(* Confirmation timeouts *)

\* The finalizer gives up waiting for the confirmation of the transaction it
\* sent and recorded, and schedules the retry.
ConfirmationTimeout ==
    /\ wk["w1"].pc = "confirm"
    /\ FailureRecorded

\* The same, in an attempt that follows one that also sent its transaction
\* and timed out: the job was claimed out of retrying with a signature on it.
SecondTimeout ==
    /\ ConfirmationTimeout
    /\ wk["w1"].job.chain_job_status = "retrying"
    /\ wk["w1"].job.last_tx_sig # NoSig

\* The delay the timeout before got: that attempt had claimed the job with one
\* attempt less, the one its own submission added.
FirstBackoff == retry_backoff_seconds(wk["w1"].job.attempt_count - 1)

\* An attempt after the timeouts finds the account in the state the job is for.
ObservesFinal ==
    /\ wk["w1"].pc = "decide"
    /\ wk["w1"].job.chain_job_status = "retrying"
    /\ reconcile(wk["w1"].decoded, wk["w1"].job) = "confirm"

\* C20: when the finalizer submits a transaction and times out on its
\* confirmation in two consecutive attempts for a job, each timeout records
\* last_error, the backoff after the second timeout is double the backoff after
\* the first, the job stays in submitted or retrying, and a later attempt that
\* observes the settled account marks the job confirmed.
C20_FlakeThenRecover ==
    [][ /\ ConfirmationTimeout
           => /\ job'.last_error = ErrorText
              /\ job.status = "submitted"
              /\ job'.status = "retrying"
        /\ SecondTimeout => job'.next_attempt_at - now = 2 * FirstBackoff
        /\ (ObservesFinal /\ wk'["w1"].pc = "idle")
           => /\ job'.status = "confirmed"
              /\ match'.status = reconciled_status(wk["w1"].job) ]_vars

----------------------------------------------------------------------------
(* Lease recovery *)

\* The worker holds the lock the job row carries.
HoldsLease(w) == wk[w].job.lock_token # NoToken /\ wk[w].job.lock_token = job.lock_token

\* Process w2 sits at position pc and the job is locked, but not by w1; the
\* lease can still go stale on the clock of the model.
LeftLocked(pc) ==
    /\ wk["w2"].pc = pc
    /\ job.lock_token # NoToken
    /\ ~HoldsLease("w1")
    /\ job.locked_at + LeaseSeconds < MaxTime

\* C21: a job whose worker died or stalled between its claim and its update
\* keeps a claimable status; no worker claims it while the lease is 30 seconds
\* old or younger; and once the lease is older and next_attempt_at <= now the
\* job is claimable again and a live worker does claim it.
C21_StaleLeaseIsReclaimed ==
    /\ [][ /\ (\E w \in Workers : HoldsLease(w) /\ wk'[w].pc = "idle" /\ job' = job)
              => job'.status \in {"pending", "retrying", "submitted"}
           /\ (job.lock_token # NoToken /\ job'.lock_token \notin {NoToken, job.lock_token})
              => now - job.locked_at > LeaseSeconds
           /\ (job.lock_token # NoToken /\ job.status \in {"pending", "retrying", "submitted"}
               /\ job.next_attempt_at <= now /\ now - job.locked_at > LeaseSeconds)
              => claimable(job, now) ]_vars
    /\ \A pc \in {"idle", "fetch", "decide", "persist", "confirm"} :
         LeftLocked(pc) ~> (wk["w2"].pc # pc \/ HoldsLease("w1"))

\* The live worker took over the job that the dead one had left locked.
C21_TakenOverAfterCrash ==
    /\ HoldsLease("w1")
    /\ wk["w2"].pc = "idle"
    /\ job.locked_at = now
    /\ now > LeaseSeconds
    /\ job.attempt_count = 0
    /\ \A s \in Sigs : txs[s].status = "unsent"

----------------------------------------------------------------------------
(* Failures inside the finalizer *)

\* process_one_job returns for the job it had claimed.
Returns(w) == wk[w].pc \notin {"idle"} /\ wk'[w].pc = "idle"

\* The decision a failure ends in, as the job row shows it.
DecisionRecorded ==
    /\ job'.status \in {"retrying", "failed"}
    /\ job'.last_error # NULL
    /\ job'.lock_token = NoToken

\* C22: every failure of the finalizer while it processes a claimed job (fetch,
\* build, send, persisting the submission, confirmation, persisting the
\* confirmation) ends in a retry or fail decision recorded on the job row:
\* status retrying or failed, last_error set, lock released; process_one_job
\* returns with the job confirmed or with such a record, never without.
C22_FailuresAreRecorded ==
    [][ Returns("w1") => (job'.status = "confirmed" \/ DecisionRecorded) ]_vars

----------------------------------------------------------------------------
(* Columns of a match that are written once *)

\* The column named f of the match row keeps the value it has, if it has one.
Kept(f, null) == match[f] # null => match'[f] = match[f]

\* C23: result_idempotency_key, finalization_reason_code, winner_pubkey,
\* create_tx_sig, join_tx_sig, final_tx_sig, created_onchain_at,
\* joined_onchain_at, join_expires_at and settle_expires_at of a match never
\* change once they are non-null, whatever create-confirm, join-confirm,
\* submit-result, the timeout watcher, the finalizer and admin retry do.
C23_SetOnceColumns ==
    [][ /\ \A f \in {"result_idempotency_key", "finalization_reason_code", "winner_pubkey",
                     "create_tx_sig", "join_tx_sig"} : Kept(f, NULL)
        /\ Kept("final_tx_sig", NoSig)
        /\ \A f \in {"created_onchain_at", "joined_onchain_at", "join_expires_at",
                     "settle_expires_at"} : Kept(f, NoTime) ]_vars

\* The refund of a join timeout went through although a join was confirmed
\* after the watcher had recorded the timeout: every column above is set but
\* winner_pubkey.
C23_AllSetAfterLateJoin ==
    /\ match.status = "refunded"
    /\ match.result_idempotency_key = AutoJoinTimeoutKey
    /\ match.finalization_reason_code = "join_timeout"
    /\ match.create_tx_sig = "c2"
    /\ match.join_tx_sig = "j2"
    /\ match.final_tx_sig # NoSig
    /\ match.settle_expires_at # NoTime
    /\ match.winner_pubkey = NULL

----------------------------------------------------------------------------
(* The winner *)

\* C24: the winner_pubkey of a match is null or one of its two players, and a
\* chain job has a winner_pubkey exactly when its job_type is settle.
C24_WinnerIsAPlayer ==
    /\ match.winner_pubkey \in {NULL, match.player1_pubkey, match.player2_pubkey}
    /\ job.exists => (job.winner_pubkey # NULL <=> job.job_type = "settle")

\* A result naming a stranger was refused for a match that has its settle job.
C24_StrangerRefused ==
    /\ last.op = "submit_result"
    /\ last.arg.winner_pubkey = P3
    /\ last.res = "Conflict"
    /\ job.exists
    /\ job.job_type = "settle"
    /\ match.winner_pubkey = P2

----------------------------------------------------------------------------
(* Confirm calls sent again *)

\* The parts of a body that the confirm calls with one signature repeat.
StableParts(body) ==
    [ verified |-> body.verified, tx_sig |-> body.tx_sig, expires_at |-> body.expires_at,
      player2_pubkey |-> body.player2_pubkey ]

\* C25: create-confirm, or join-confirm, sent again with the signature of an
\* earlier successful call returns the same body as that call (verified,
\* match_status, signature, expiry), whatever ran on the match in between.
C25_SameBodyAgain ==
    \A sig \in CreateSigs \cup JoinSigs : answered[sig].latest = answered[sig].first

\* C25, amended: the call sent again returns the same verified, signature,
\* expiry (and player2) as the earlier one, and as match_status the status the
\* match has at the time of the call.
C25_SameBodyButStatus ==
    [][ \A sig \in CreateSigs \cup JoinSigs :
          /\ StableParts(answered'[sig].latest) = StableParts(answered'[sig].first)
          /\ answered'[sig] # answered[sig]
             => answered'[sig].latest.match_status = match'.status ]_vars

\* Both kinds of call were sent again after the match was settled, and got a
\* body that differs from the first one in match_status alone.
C25_AgainAfterSettled ==
    /\ match.status = "settled"
    /\ \A sig \in {"c1", "j2"} :
         /\ answered[sig].first.verified
         /\ answered[sig].latest.match_status = "settled"
         /\ answered[sig].first.match_status \in {"created_on_chain", "joined_on_chain"}
    /\ answered["j2"].latest.tx_sig = "j1"

----------------------------------------------------------------------------
(* The timeout watcher *)

\* A chain job is inserted for a match that waits for its second player.
WatcherEnqueues == ~job.exists /\ job'.exists /\ match.status = "created_on_chain"

\* C26: the timeout watcher enqueues only for a match in created_on_chain with
\* no player2, join_expires_at <= now and no chain job; in the same step the
\* match goes to result_pending_finalize with reason join_timeout and key
\* auto-join-timeout-<match_id> and a pending force_refund job without winner
\* is inserted; and it never enqueues twice for a match.
C26_WatcherEnqueuesOnce ==
    [][ /\ WatcherEnqueues
           => /\ match.player2_pubkey = NULL
              /\ match.join_expires_at # NoTime
              /\ match.join_expires_at <= now
              /\ match'.status = "result_pending_finalize"
              /\ match'.finalization_reason_code = "join_timeout"
              /\ match'.result_idempotency_key = AutoJoinTimeoutKey
              /\ job' = [ NoJob EXCEPT !.exists = TRUE, !.job_type = "force_refund",
                                       !.status = "pending", !.next_attempt_at = now ]
        /\ (match.result_idempotency_key # AutoJoinTimeoutKey
            /\ match'.result_idempotency_key = AutoJoinTimeoutKey) => WatcherEnqueues
        /\ (match.status = "created_on_chain" /\ match'.status = "result_pending_finalize")
           => WatcherEnqueues
        /\ job.exists => (job'.exists /\ job'.job_type = job.job_type)
        /\ (match.result_idempotency_key = AutoJoinTimeoutKey)
           => ~join_timeout_candidate(job', match', now') ]_vars

\* The watcher has enqueued the refund of a match nobody joined; the job waits.
C26_TimeoutRefundQueued ==
    /\ match.status = "result_pending_finalize"
    /\ match.result_idempotency_key = AutoJoinTimeoutKey
    /\ match.player2_pubkey = NULL
    /\ job.exists
    /\ job.status = "pending"
    /\ job.job_type = "force_refund"
    /\ job.lock_token = NoToken
    /\ now >= match.join_expires_at

----------------------------------------------------------------------------
(* The claim of a due job *)

\* Worker w comes out of claim_next_due_finalizer_job with a job.
Claims(w) == wk[w].pc = "idle" /\ wk'[w].pc # "idle"

\* C27: a claim returns a job only if its status is pending, retrying or
\* submitted, next_attempt_at <= now and its lease is null or older than 30
\* seconds; the claim changes only lock_token, to a fresh token, and locked_at,
\* and leaves the other columns of the job and the match row as they were.
C27_ClaimStampsLeaseOnly ==
    [][ \A w \in Workers :
          Claims(w)
          => /\ job.exists
             /\ job.status \in {"pending", "retrying", "submitted"}
             /\ job.next_attempt_at <= now
             /\ \/ job.lock_token = NoToken /\ job.locked_at = NoTime
                \/ job.locked_at + 30 < now
             /\ job'.lock_token # NoToken
             /\ job'.lock_token # job.lock_token
             /\ \A v \in Workers : job'.lock_token # wk[v].job.lock_token
             /\ job' = [ job EXCEPT !.lock_token = job'.lock_token, !.locked_at = now ]
             /\ wk'[w].job.lock_token = job'.lock_token
             /\ wk'[w].job.chain_job_status = job.status
             /\ wk'[w].job.attempt_count = job.attempt_count
             /\ wk'[w].job.last_tx_sig = job.last_tx_sig
             /\ match' = match ]_vars

\* A worker has just taken over a submitted job whose lease had run out, and
\* the worker that held the lease before still carries its old token.
C27_ExpiredLeaseClaimed ==
    /\ wk["w1"].pc = "fetch"
    /\ wk["w1"].job.chain_job_status = "submitted"
    /\ wk["w1"].job.attempt_count > 0
    /\ job.lock_token = wk["w1"].job.lock_token
    /\ job.locked_at = now
    /\ job.status = "submitted"
    /\ wk["w2"].job.lock_token \notin {NoToken, job.lock_token}

----------------------------------------------------------------------------
(* What the finalizer does with the account it decoded *)

\* Worker w acts on the account it decoded.
Decides(w) == wk[w].pc = "decide" /\ wk'[w].pc # "decide"

\* The job row still carries the lock token of w's claim.
LeaseHeld(w) == job.exists /\ job.lock_token = wk[w].job.lock_token

TerminalGame(g) == g.state \in {"Settled", "Refunded"}

AgreesWith(claim, g) ==
    \/ claim.job_type = "settle" /\ g.state = "Settled"
    \/ claim.job_type = "force_refund" /\ g.state = "Refunded"

\* C28: when the account decoded for a claimed job is already terminal the
\* worker sends nothing; under the local authority and with the claim's lease
\* on the row, a terminal state that matches the job type confirms the job
\* and makes the match settled resp. refunded, and the opposite terminal
\* state fails the job with attempt_count unchanged.
C28_ReconcilesTerminalAccount ==
    [][ \A w \in Workers :
          (Decides(w) /\ TerminalGame(wk[w].decoded))
          => /\ txs' = txs
             /\ wk'[w].pc = "idle"
             /\ (wk[w].decoded.authority = AUTH /\ LeaseHeld(w))
                => IF AgreesWith(wk[w].job, wk[w].decoded)
                   THEN /\ job'.status = "confirmed"
                        /\ job'.attempt_count = job.attempt_count
                        /\ match'.status = (IF job.job_type = "settle" THEN "settled" ELSE "refunded")
                        /\ match'.final_tx_sig = wk[w].job.last_tx_sig
                   ELSE /\ job'.status = "failed"
                        /\ job'.attempt_count = job.attempt_count
                        /\ match'.status = match.status ]_vars

\* A job was confirmed against an account that was already terminal when the
\* worker first read it: the backend never sent a transaction.
C28_ConfirmedWithoutSend ==
    /\ job.status = "confirmed"
    /\ job.attempt_count = 0
    /\ match.status \in {"settled", "refunded"}
    /\ match.final_tx_sig = NoSig
    /\ TerminalGame(chain)
    /\ \A s \in Sigs : txs[s].status = "unsent"

\* Worker w hands a transaction to the ledger.
Sends(w) == wk[w].pc = "decide" /\ wk'[w].pc = "persist"

\* C29: a worker sends a finalization transaction only if the account it
\* decoded in the same claim has the local authority and a non-terminal state:
\* Joined with the job's winner equal to the account's player1 or player2 for
\* settle, Created or Joined for force_refund; a transaction enters the ledger
\* only by such a send; on authority mismatch nothing is sent and the job,
\* while the claim's lease is on the row, becomes failed with attempt_count
\* unchanged; and a settle job whose account is Created never sends.
C29_SendsOnlyWhatTheAccountAllows ==
    [][ /\ \A w \in Workers :
             Sends(w)
             => /\ wk[w].decoded.authority = AUTH
                /\ IF wk[w].job.job_type = "settle"
                   THEN /\ wk[w].decoded.state = "Joined"
                        /\ wk[w].job.winner_pubkey \in {wk[w].decoded.player1, wk[w].decoded.player2}
                   ELSE wk[w].decoded.state \in {"Created", "Joined"}
                /\ \E s \in Sigs :
                     /\ txs[s].status = "unsent"
                     /\ wk'[w].sig = s
                     /\ txs' = [ txs EXCEPT ![s] =
                                   [ kind |-> IF wk[w].job.job_type = "settle"
                                              THEN "settle_game" ELSE "force_refund",
                                     winner |-> wk[w].job.winner_pubkey,
                                     status |-> "inflight" ] ]
        /\ (\E s \in Sigs : txs[s].status = "unsent" /\ txs'[s].status # "unsent")
           => \E w \in Workers : Sends(w)
        /\ \A w \in Workers :
             (Decides(w) /\ wk[w].decoded.authority # AUTH)
             => /\ txs' = txs
                /\ wk'[w].pc = "idle"
                /\ match'.status = match.status
                /\ LeaseHeld(w) => /\ job'.status = "failed"
                                   /\ job'.attempt_count = job.attempt_count
        /\ \A w \in Workers :
             (Decides(w) /\ wk[w].job.job_type = "settle" /\ wk[w].decoded.state = "Created")
             => txs' = txs /\ wk'[w].pc = "idle" ]_vars

\* A job failed on the first look at an account that belongs to another
\* authority, although the account was open to the instruction: nothing was
\* sent and no attempt was counted.
C29_ForeignAuthorityFailed ==
    /\ job.status = "failed"
    /\ job.attempt_count = 0
    /\ job.last_error # NULL
    /\ chain.authority = AUTH2
    /\ chain.state = "Joined"
    /\ chain.player2 = P2
    /\ match.status = "result_pending_finalize"
    /\ \A s \in Sigs : txs[s].status = "unsent"

----------------------------------------------------------------------------
(* A worker that has lost its lease *)

\* Worker w, somewhere inside process_claimed_job, takes a step.
Steps(w) == wk[w].pc # "idle" /\ wk'[w] # wk[w]

\* The four updates and clear_job_lock, called with lock token tok, answer
\* Conflict resp. do nothing, and leave both rows as they are.
Refused(tok) ==
    /\ \A s \in Sigs :
         mark_job_submitted(job, match, tok, s) = [ res |-> "Conflict", job |-> job, match |-> match ]
    /\ \A inc \in BOOLEAN :
         /\ mark_job_retrying(job, match, tok, ErrorText, 2, inc, now)
              = [ res |-> "Conflict", job |-> job, match |-> match ]
         /\ mark_job_failed(job, match, tok, ErrorText, inc, now)
              = [ res |-> "Conflict", job |-> job, match |-> match ]
    /\ \A s \in Sigs \cup {NoSig}, st \in {"settled", "refunded"} :
         mark_job_confirmed_and_finalize_match(job, match, tok, s, st, now)
           = [ res |-> "Conflict", job |-> job, match |-> match ]
    /\ clear_job_lock(job, tok) = job

\* C30: a worker whose lock_token is no longer the one stored on the job
\* (the job was claimed again after the lease ran out, or the lock was cleared
\* by admin-retry or by a retry, fail or confirm update) changes nothing:
\* mark_job_submitted, mark_job_retrying, mark_job_failed and
\* mark_job_confirmed_and_finalize_match return Conflict and leave the job row
\* and the match row unchanged, and clear_job_lock is a no-op.
C30_LostLockChangesNothing ==
    /\ [](\A w \in Workers :
            (wk[w].pc # "idle" /\ ~LeaseHeld(w)) => Refused(wk[w].job.lock_token))
    /\ [][ \A w \in Workers :
             (Steps(w) /\ ~LeaseHeld(w)) => (job' = job /\ match' = match) ]_vars

\* A worker sent a transaction, found at mark_job_submitted that the job had
\* been claimed again, and went back to its loop: the transaction is on the
\* ledger, and the job row, now leased to the other worker, knows nothing of it.
C30_SendOfStaleWorkerUnrecorded ==
    \E s \in Sigs :
      /\ txs[s].status # "unsent"
      /\ \A w \in Workers : wk[w].sig # s
      /\ job.last_tx_sig = NoSig
      /\ job.attempt_count = 0
      /\ job.lock_token # NoToken
      /\ \E w \in Workers : wk[w].pc # "idle" /\ LeaseHeld(w)

----------------------------------------------------------------------------
(* Attempts counted by one processing of a job *)

\* C31: each processing of a claimed job increases the stored attempt_count
\* by at most one; a send followed by the persisted submission increments it
\* by exactly one (job submitted, last_tx_sig stored, last_error cleared, match
\* finalizing if it was result_pending_finalize), and a confirmation error or
\* timeout for that submission does not increment it again.
C31_OneAttemptPerProcessing ==
    [][ \A w \in Workers :
          Steps(w)
          => /\ job'.attempt_count <= wk[w].job.attempt_count + 1
             /\ (wk[w].pc = "persist" /\ wk'[w].pc = "confirm")
                => /\ job'.attempt_count = job.attempt_count + 1
                   /\ job'.status = "submitted"
                   /\ job'.last_tx_sig = wk[w].sig
                   /\ job'.last_error = NULL
                   /\ match'.status = (IF match.status = "result_pending_finalize"
                                       THEN "finalizing" ELSE match.status)
             /\ (wk[w].pc = "confirm" /\ txs[wk[w].sig].status # "landed")
                => job'.attempt_count = job.attempt_count ]_vars

----------------------------------------------------------------------------
(* The two confirmations *)

\* The fields both handlers compare with the row.
SameGame(m, g) ==
    /\ g.player1 = m.player1_pubkey
    /\ g.authority = m.authority_pubkey
    /\ g.match_id = MatchId
    /\ g.entry_amount = m.entry_lamports

CreatedAsStored(m, g) == g.state = "Created" /\ SameGame(m, g)

JoinedAsStored(m, g) ==
    /\ g.state = "Joined"
    /\ SameGame(m, g)
    /\ g.player2 # DefaultPubkey
    /\ g.player2 # g.player1

\* C32: a match leaves waiting_create_tx only through a create-confirm that
\* read the account in state Created with player1, authority, match_id and
\* entry_amount equal to the row, and goes from created_on_chain to
\* joined_on_chain only through a join-confirm that read state Joined with the
\* same fields equal, player2 not default and not player1; a mismatch is
\* answered Conflict and leaves the row unchanged, and join-confirm on a match
\* in waiting_create_tx is answered Conflict.
C32_ConfirmedAgainstTheAccount ==
    /\ [][ /\ (match.status = "waiting_create_tx" /\ match'.status # "waiting_create_tx")
              => /\ match'.status = "created_on_chain"
                 /\ \E sig \in ccReqs : sig \notin ccReqs' /\ match'.create_tx_sig = sig
                 /\ SameGame(match, chain)
           /\ \A sig \in CreateSigs :
                (sig \notin ccReqs /\ sig \in ccReqs')
                => /\ match.status = "waiting_create_tx"
                   /\ CreatedAsStored(match, chain)
           /\ (match.status = "created_on_chain" /\ match'.status = "joined_on_chain")
              => /\ \E sig \in JoinSigs : /\ jcReqs[sig] = "verified"
                                          /\ jcReqs'[sig] = "none"
                                          /\ match'.join_tx_sig = sig
                 /\ JoinedAsStored(match, chain)
                 /\ match'.player2_pubkey = chain.player2
           /\ \A sig \in JoinSigs :
                /\ (jcReqs[sig] = "none" /\ jcReqs'[sig] # "none")
                   => (match.status = "created_on_chain" /\ jcReqs'[sig] = "read")
                /\ (jcReqs[sig] # "verified" /\ jcReqs'[sig] = "verified")
                   => (jcReqs[sig] = "read" /\ JoinedAsStored(match, chain))
           /\ (last'.op \in ConfirmOps /\ last'.res # "Ok") => match' = match
           /\ (match.status = "waiting_create_tx" /\ chain.state # "None"
               /\ ~CreatedAsStored(match, chain) /\ last'.op = "create_confirm"
               /\ ccReqs \subseteq ccReqs')
              => (last'.res = "Conflict" /\ ccReqs' = ccReqs)
           /\ \A sig \in JoinSigs :
                (jcReqs[sig] = "read" /\ jcReqs'[sig] # "read" /\ chain.state # "None"
                 /\ ~JoinedAsStored(match, chain))
                => (jcReqs'[sig] = "none" /\ last'.op = "join_confirm" /\ last'.res = "Conflict")
         ]_vars
    /\ []((last.op = "join_confirm" /\ match.status = "waiting_create_tx")
          => last.res = "Conflict")
    /\ []((last.op = "create_confirm" /\ match.status = "waiting_create_tx"
           /\ chain.state # "None")
          => (last.res = "Conflict" /\ ~CreatedAsStored(match, chain)))

\* A join-confirm was just refused because the account's player2 is player1
\* again; the match still waits for its second player.
C32_SelfJoinRefused ==
    /\ last.op = "join_confirm"
    /\ last.res = "Conflict"
    /\ match.status = "created_on_chain"
    /\ match.player2_pubkey = NULL
    /\ chain.state = "Joined"
    /\ SameGame(match, chain)
    /\ chain.player2 = chain.player1

----------------------------------------------------------------------------
(* The job and its match at the end *)

MatchFinal(m) == m.status \in {"settled", "refunded"}

JobConfirmed(j) == j.exists /\ j.status = "confirmed"

\* The status the match of a confirmed job carries.
FinalFor(j) == IF j.job_type = "settle" THEN "settled" ELSE "refunded"

\* C33: in every reachable state the job is confirmed if and only if its match
\* is settled or refunded, and then the match is settled exactly when job_type
\* is settle and refunded exactly when it is force_refund; the two rows change
\* together, in one step.
C33_ConfirmedIffFinal ==
    /\ [](JobConfirmed(job) <=> MatchFinal(match))
    /\ [](JobConfirmed(job) => match.status = FinalFor(job))
    /\ [][ /\ (~JobConfirmed(job) /\ JobConfirmed(job'))
              <=> (~MatchFinal(match) /\ MatchFinal(match'))
           /\ JobConfirmed(job) => (JobConfirmed(job') /\ match'.status = match.status) ]_vars

\* A force_refund job is confirmed and its match refunded, after a first
\* transaction was given up and a second one landed.
C33_RefundedAtSecondTry ==
    /\ JobConfirmed(job)
    /\ job.job_type = "force_refund"
    /\ match.status = "refunded"
    /\ job.attempt_count >= 2
    /\ chain.state = "Refunded"

----------------------------------------------------------------------------
(* The job and its match from the start *)

\* The statuses of a match whose result is on its way to the ledger, or there.
Enqueued(m) == m.status \in {"result_pending_finalize", "finalizing", "settled", "refunded"}

\* C34: in every reachable state a chain job exists for the match if and only
\* if the match is in result_pending_finalize, finalizing, settled or refunded;
\* the match never moves to result_pending_finalize without the job being
\* inserted in the same step, and no job exists for a match in
\* waiting_create_tx, created_on_chain, joined_on_chain or in_progress.
C34_JobIffEnqueued ==
    /\ [](job.exists <=> Enqueued(match))
    /\ [](match.status \in {"absent", "waiting_create_tx", "created_on_chain",
                            "joined_on_chain", "in_progress"} => ~job.exists)
    /\ [][ /\ (match.status # "result_pending_finalize"
               /\ match'.status = "result_pending_finalize")
              => /\ ~job.exists
                 /\ job'.exists
                 /\ job'.status = "pending"
                 /\ job'.next_attempt_at = now
           /\ (~job.exists /\ job'.exists)
              => (~Enqueued(match) /\ match'.status = "result_pending_finalize")
           /\ job.exists => job'.exists ]_vars

\* A result was refused for a match whose refund the watcher had enqueued:
\* the job is still the watcher's, and the match still pending.
C34_ResultAfterTimeoutRefused ==
    /\ last.op = "submit_result"
    /\ last.res = "Conflict"
    /\ match.status = "result_pending_finalize"
    /\ match.result_idempotency_key = AutoJoinTimeoutKey
    /\ job.exists
    /\ job.job_type = "force_refund"
    /\ job.status = "pending"

----------------------------------------------------------------------------
(* The match and the ledger at the end *)

\* C35: whenever the match is settled the Game account is Settled, and
\* whenever it is refunded the account is Refunded: the backend never records
\* a terminal status the ledger has not reached, whatever the interleaving of
\* workers, confirmation polls and admin retries.
C35_FinalOnlyIfLedgerFinal ==
    /\ match.status = "settled" => chain.state = "Settled"
    /\ match.status = "refunded" => chain.state = "Refunded"

\* The match was settled by a worker that saw its own transaction fail, after
\* the transaction of an earlier attempt had landed.
C35_SettledAfterFailedResend ==
    /\ match.status = "settled"
    /\ chain.state = "Settled"
    /\ \E s \in Sigs : txs[s].status = "landed"
    /\ \E s \in Sigs : txs[s].status = "failed"

----------------------------------------------------------------------------
(* The signature kept on the match *)

\* C36: when several finalization transactions were submitted for the match,
\* the final_tx_sig recorded at confirmation, when it is not null, is the
\* signature of the transaction that took effect on the ledger, not that of a
\* later submission that failed or never landed.
C36_FinalSigTookEffect ==
    (MatchFinal(match) /\ match.final_tx_sig # NoSig)
    => txs[match.final_tx_sig].status = "landed"

----------------------------------------------------------------------------
(* Termination of a job *)

JobOpen == job.exists /\ job.status \in {"pending", "submitted", "retrying"}

JobClosed == job.exists /\ job.status \in {"confirmed", "failed"}

----------------------------------------------------------------------------
(* What admin-retry leaves alone *)

\* A worker that holds its lease comes back from a job without confirming it.
ComesBackUnconfirmed(w) ==
    Steps(w) /\ LeaseHeld(w) /\ wk'[w].pc = "idle" /\ job'.status # "confirmed"

----------------------------------------------------------------------------
(* Refused requests and the nonce store *)

\* mac.verify_slice accepts the request: the signature it carries is the tag
\* of timestamp.nonce.body under the configured secret.
MacVerified(secret, headers, raw_body) ==
    /\ secret # <<>>
    /\ {"X-Timestamp", "X-Nonce", "X-Signature"} \subseteq DOMAIN headers
    /\ parse_signature_hex(headers["X-Signature"]).ok
    /\ parse_signature_hex(headers["X-Signature"]).bytes
         = hmac_sha256(secret, signed_message(trim(headers["X-Timestamp"]),
                                              trim(headers["X-Nonce"]), raw_body))

\* The correctly signed requests that carry the nonce of a request.
SignedWithNonceOf(headers) ==
    { SignedHeaders(Secret, timestamp, request_nonce(headers), VerifyBody) :
        timestamp \in { <<"0">>, <<"5">> } }

\* C39: a request that verify_internal_hmac refuses, for whatever reason,
\* leaves used_nonces as it was, so a correctly signed request with the same
\* nonce is answered afterwards as it would have been before; a nonce is
\* stored only by a request whose MAC was verified, and it is the nonce of
\* that request.
C39_RefusedRequestKeepsItsNonce ==
    [][ last'.op = "verify_internal_hmac"
        => /\ last'.res # "Ok" => used_nonces' = used_nonces
           /\ last'.res # "Ok"
              => \A later \in SignedWithNonceOf(last'.arg.headers), oc \in OverflowChecks :
                   verify_internal_hmac(internal_hmac_secret, later, VerifyBody, now,
                                        used_nonces', oc).res
                     = verify_internal_hmac(internal_hmac_secret, later, VerifyBody, now,
                                            used_nonces, oc).res
           /\ used_nonces' # used_nonces
              => /\ MacVerified(internal_hmac_secret, last'.arg.headers, last'.arg.body)
                 /\ used_nonces' = Append(used_nonces, request_nonce(last'.arg.headers)) ]_vars

\* A request with nonce n2, a timestamp inside the window and the signature
\* of another key was refused; n2 is not stored, and the correctly signed
\* request with n2 would pass.
C39_ForgedRequestLeftItsNonceFree ==
    /\ last.op = "verify_internal_hmac"
    /\ last.res = "Unauthorized"
    /\ internal_hmac_secret = Secret
    /\ {"X-Timestamp", "X-Nonce", "X-Signature"} \subseteq DOMAIN last.arg.headers
    /\ request_nonce(last.arg.headers) = N2
    /\ parse_timestamp(last.arg.headers["X-Timestamp"]).ok
    /\ parse_signature_hex(last.arg.headers["X-Signature"]).ok
    /\ ~MacVerified(internal_hmac_secret, last.arg.headers, last.arg.body)
    /\ ~InTable(used_nonces, N2)
    /\ \A later \in SignedWithNonceOf(last.arg.headers) :
         verify_internal_hmac(internal_hmac_secret, later, VerifyBody, now,
                              used_nonces, FALSE).res = "Ok"

----------------------------------------------------------------------------
(* Join timeout and a late join-confirm *)

\* C40: a match whose finalization_reason_code is join_timeout has no second
\* player: player2_pubkey and join_tx_sig are null, also when a join-confirm
\* runs alongside the timeout watcher.
C40_TimedOutMatchHasNoSecondPlayer ==
    match.finalization_reason_code = "join_timeout"
    => (match.player2_pubkey = NULL /\ match.join_tx_sig = NULL)

====
